---- MODULE Spec2Model ----
(***************************************************************************)
(* Dealer client: order submission (orders API + order-create), the        *)
(* finance fetcher, and the time-boxed local caches of the Orders,         *)
(* Finance and NewOrderModal screens.                                      *)
(*                                                                         *)
(* Conventions.  A string the code may see as null is the string NullStr;  *)
(* "" is the empty string; both are falsy.  Money is counted in hundredths *)
(* (20.00 is 2000).  An error message is a tuple <<text>> or               *)
(* <<prefix, store message>> (template strings).  An optional record is a  *)
(* sequence of length 0 or 1.                                              *)
(***************************************************************************)
EXTENDS Integers, Sequences, FiniteSets, TLC

VARIABLES
    orders,     \* the store's orders table, in insertion order
    co,         \* the createOrder call in progress or last settled
    now,        \* Date.now(), in milliseconds
    ledger,     \* the store's dealer_finance rows of dealer d1 (their number)
    apiFin,     \* the fetchDealerFinance call made by a direct caller
    apiLog,     \* settled fetchDealerFinance calls of that caller
    storage,    \* AsyncStorage: key -> stored text
    items,      \* the store's price_chart_items table
    user,       \* profile?.user_id of the AuthProvider ("" while no profile)
    focus,      \* the screen in the foreground
    call,       \* the direct call of a catalogue or dealer fetcher, in progress or settled
    nav,        \* AuthProvider state and the current route, as the route guard sees them
    events,     \* gestures, outside events and faults so far
    last,       \* the step taken last: gesture or chain step, and how it ended
    ui,         \* React state of each screen
    tasks,      \* async call chains in flight (effects, refreshes, interval ticks)
    timers      \* interval timers of the Finance screen that are scheduled

screenVars == <<items, user, focus, call, nav, events, last, ui, tasks, timers>>

vars == <<orders, co, now, ledger, apiFin, apiLog, storage, screenVars>>

(***************************************************************************)
(* Bounds of the model                                                     *)
(***************************************************************************)
MaxOrders == 2

NullStr == "<null>"

Falsy(s) == s = "" \/ s = NullStr

(***************************************************************************)
(* The remote store's dealers table (rows the client only reads)           *)
(***************************************************************************)
DealerRows ==
    { [id |-> "d1", user_id |-> "u1", name |-> "Dealer One", dealer_code |-> "DC1",
       salesman_id |-> "s1", price_chart_code |-> "PC1"],
      [id |-> "d2", user_id |-> "u2", name |-> "Dealer Two", dealer_code |-> "DC2",
       salesman_id |-> NullStr, price_chart_code |-> NullStr],
      [id |-> "d3", user_id |-> "u3", name |-> "Dealer Three", dealer_code |-> "DC3",
       salesman_id |-> "s1", price_chart_code |-> "PC1"],
      [id |-> "d4", user_id |-> "u3", name |-> "Dealer Three B", dealer_code |-> "DC4",
       salesman_id |-> "s1", price_chart_code |-> "PC2"],
      [id |-> "d5", user_id |-> "u5", name |-> "Dealer Five", dealer_code |-> "DC5",
       salesman_id |-> "s1", price_chart_code |-> "PC3"] }

StoreFault == "connection lost"

(***************************************************************************)
(* Order candidates (CreateOrderData)                                      *)
(***************************************************************************)
Candidates ==
    [ dealer_id      : {"", "d1", "d2"},
      product_id     : {"", "p1"},
      product_name   : {"", "Widget"},
      unit           : {"", "pcs"},
      quantity       : {-1, 0, 5},
      price_chart_id : {NullStr, "pc-1"},
      price_per_unit : {-2000, 0, 2000},
      total_price    : {-1, 0, 9999, 10000},
      notes          : {""} ]

NoCandidate ==
    [ dealer_id |-> "", product_id |-> "", product_name |-> "", unit |-> "",
      quantity |-> 0, price_chart_id |-> NullStr, price_per_unit |-> 0,
      total_price |-> 0, notes |-> "" ]

OK == <<>>

\* Mutant of ValidateOrder: the quantity rule is missing.
ValidateOrderNoQuantity(c) ==
    IF Falsy(c.dealer_id) THEN <<"Dealer ID is required">>
    ELSE IF Falsy(c.product_id) THEN <<"Product ID is required">>
    ELSE IF Falsy(c.product_name) THEN <<"Product name is required">>
    ELSE IF Falsy(c.unit) THEN <<"Unit is required">>
    ELSE IF c.price_per_unit <= 0 THEN <<"Price per unit must be greater than 0">>
    ELSE IF c.total_price <= 0 THEN <<"Total price must be greater than 0">>
    ELSE OK

\* Mutant of ValidateOrder: the unit price is checked before the quantity.
ValidateOrderSwapped(c) ==
    IF Falsy(c.dealer_id) THEN <<"Dealer ID is required">>
    ELSE IF Falsy(c.product_id) THEN <<"Product ID is required">>
    ELSE IF Falsy(c.product_name) THEN <<"Product name is required">>
    ELSE IF Falsy(c.unit) THEN <<"Unit is required">>
    ELSE IF c.price_per_unit <= 0 THEN <<"Price per unit must be greater than 0">>
    ELSE IF c.quantity <= 0 THEN <<"Quantity must be greater than 0">>
    ELSE IF c.total_price <= 0 THEN <<"Total price must be greater than 0">>
    ELSE OK

\* Mutant of ValidateOrder: an eighth rule cross-checks the total.
ValidateOrderCrossCheck(c) ==
    IF Falsy(c.dealer_id) THEN <<"Dealer ID is required">>
    ELSE IF Falsy(c.product_id) THEN <<"Product ID is required">>
    ELSE IF Falsy(c.product_name) THEN <<"Product name is required">>
    ELSE IF Falsy(c.unit) THEN <<"Unit is required">>
    ELSE IF c.quantity <= 0 THEN <<"Quantity must be greater than 0">>
    ELSE IF c.price_per_unit <= 0 THEN <<"Price per unit must be greater than 0">>
    ELSE IF c.total_price <= 0 THEN <<"Total price must be greater than 0">>
    ELSE IF c.total_price # c.quantity * c.price_per_unit THEN <<"Total price mismatch">>
    ELSE OK

\* createOrder (orders API): the validation block; OK when no rule throws.
ValidateOrder(c) ==
    IF Falsy(c.dealer_id) THEN <<"Dealer ID is required">>
    ELSE IF Falsy(c.product_id) THEN <<"Product ID is required">>
    ELSE IF Falsy(c.product_name) THEN <<"Product name is required">>
    ELSE IF Falsy(c.unit) THEN <<"Unit is required">>
    ELSE IF c.quantity <= 0 THEN <<"Quantity must be greater than 0">>
    ELSE IF c.price_per_unit <= 0 THEN <<"Price per unit must be greater than 0">>
    ELSE IF c.total_price <= 0 THEN <<"Total price must be greater than 0">>
    ELSE OK

\* Mutant of MissingRequired: price_chart_id is not required.
MissingRequiredNoChart(c) ==
    \/ Falsy(c.dealer_id) \/ Falsy(c.product_id) \/ c.quantity = 0
    \/ c.price_per_unit = 0 \/ Falsy(c.product_name) \/ Falsy(c.unit)

\* createOrder (order-create): the required-field check (!x of each field).
MissingRequired(c) ==
    \/ Falsy(c.dealer_id) \/ Falsy(c.product_id) \/ c.quantity = 0
    \/ Falsy(c.price_chart_id) \/ c.price_per_unit = 0
    \/ Falsy(c.product_name) \/ Falsy(c.unit)

\* Mutant of InsertPayload: the candidate's own total_price is stored.
InsertPayloadTrustTotal(c, salesman) ==
    [ dealer_id |-> c.dealer_id,
      salesman_id |-> IF Falsy(salesman) THEN NullStr ELSE salesman,
      product_id |-> c.product_id, product_name |-> c.product_name,
      unit |-> c.unit, quantity |-> c.quantity,
      price_chart_id |-> c.price_chart_id, price_per_unit |-> c.price_per_unit,
      total_price |-> c.total_price,
      status |-> "processing",
      notes |-> IF Falsy(c.notes) THEN NullStr ELSE c.notes ]

\* An insert row that carries an identifier and a creation time of the client.
InsertPayloadWithId(c, salesman) ==
    [ id |-> "client-1", created_at |-> 0,
      dealer_id |-> c.dealer_id,
      salesman_id |-> IF Falsy(salesman) THEN NullStr ELSE salesman,
      product_id |-> c.product_id, product_name |-> c.product_name,
      unit |-> c.unit, quantity |-> c.quantity,
      price_chart_id |-> c.price_chart_id, price_per_unit |-> c.price_per_unit,
      total_price |-> c.quantity * c.price_per_unit,
      status |-> "processing",
      notes |-> IF Falsy(c.notes) THEN NullStr ELSE c.notes ]

\* createOrder (order-create): the row handed to insert().
InsertPayload(c, salesman) ==
    [ dealer_id |-> c.dealer_id,
      salesman_id |-> IF Falsy(salesman) THEN NullStr ELSE salesman,
      product_id |-> c.product_id, product_name |-> c.product_name,
      unit |-> c.unit, quantity |-> c.quantity,
      price_chart_id |-> c.price_chart_id, price_per_unit |-> c.price_per_unit,
      total_price |-> c.quantity * c.price_per_unit,
      status |-> "processing",
      notes |-> IF Falsy(c.notes) THEN NullStr ELSE c.notes ]

\* The store's insert: it assigns the identifier and the creation timestamp.
StoreInsert(tbl, row) ==
    Append(tbl, [ id |-> Len(tbl) + 1, created_at |-> now, row |-> row ])

DealerById(id) == { r \in DealerRows : r.id = id }

\* No direct fetcher call has been made.
CallIdle ==
    [ fn |-> "", arg |-> "", pc |-> "idle", queries |-> <<>>, chart |-> <<>>,
      out |-> "none", msg |-> OK, data |-> <<>>, faulted |-> FALSE ]

CoIdle ==
    [ pc |-> "idle", data |-> NoCandidate, salesman |-> NullStr,
      calls |-> <<>>, dealerOk |-> FALSE, outcome |-> "none", msg |-> OK,
      created |-> <<>> ]

CoFail(c, calls, ok, msg) ==
    [ pc |-> "settled", data |-> c, salesman |-> NullStr,
      calls |-> calls, dealerOk |-> ok, outcome |-> "error", msg |-> msg,
      created |-> <<>> ]

\* createOrder(orderData) up to its first await: both validation layers, then
\* the dealers select is issued.
CreateOrderCall(c) ==
    /\ co.pc = "idle"
    /\ Len(orders) < MaxOrders
    /\ co' = IF ValidateOrder(c) # OK
                THEN CoFail(c, <<>>, FALSE, ValidateOrder(c))
             ELSE IF MissingRequired(c)
                THEN CoFail(c, <<>>, FALSE,
                     <<"Missing required fields. Please ensure all required data is provided.">>)
             ELSE [ pc |-> "lookup", data |-> c, salesman |-> NullStr,
                    calls |-> <<"dealers.select">>, dealerOk |-> FALSE,
                    outcome |-> "none", msg |-> OK, created |-> <<>> ]
    /\ UNCHANGED <<orders, now, ledger, apiFin, apiLog, storage, screenVars>>

\* The dealers select settles: .single() errs on a fault and on zero rows.
CreateOrderDealerResp(fault) ==
    /\ co.pc = "lookup"
    /\ IF fault \/ DealerById(co.data.dealer_id) = {}
          THEN co' = CoFail(co.data, co.calls, FALSE, <<"Failed to fetch dealer details">>)
          ELSE LET row == CHOOSE r \in DealerById(co.data.dealer_id) : TRUE
               IN  co' = [co EXCEPT !.pc = "insert", !.salesman = row.salesman_id,
                                    !.dealerOk = TRUE,
                                    !.calls = Append(@, "orders.insert")]
    /\ UNCHANGED <<orders, now, ledger, apiFin, apiLog, storage, screenVars>>

\* The orders insert settles.
CreateOrderInsertResp(fault) ==
    /\ co.pc = "insert"
    /\ IF fault
          THEN /\ co' = CoFail(co.data, co.calls, TRUE, <<"Failed to create order: ", StoreFault>>)
               /\ UNCHANGED orders
          ELSE /\ orders' = StoreInsert(orders, InsertPayload(co.data, co.salesman))
               /\ co' = [co EXCEPT !.pc = "settled", !.outcome = "ok",
                                   !.created = <<orders'[Len(orders')]>>]
    /\ UNCHANGED <<now, ledger, apiFin, apiLog, storage, screenVars>>

\* The promise settles: the caller has the created order or the error.
CreateOrderReturn ==
    /\ co.pc = "settled"
    /\ co' = CoIdle
    /\ UNCHANGED <<orders, now, ledger, apiFin, apiLog, storage, screenVars>>

(***************************************************************************)
(* Time and AsyncStorage                                                   *)
(***************************************************************************)
CACHE_DURATION == 5 * 60 * 1000

\* The clock advances in half validity windows, so that an entry is seen at
\* ages 0, 2.5, 5 (exactly stale) and 7.5 minutes.
TickMs == CACHE_DURATION \div 2

MaxTicks == 2

Digits == <<"0", "1", "2", "3", "4", "5", "6", "7", "8", "9">>

\* Number.prototype.toString of a non-negative integer: its decimal digits.
RECURSIVE NumToString(_)
NumToString(n) ==
    IF n < 10 THEN <<Digits[n + 1]>>
    ELSE Append(NumToString(n \div 10), Digits[(n % 10) + 1])

IsDigit(ch) == \E d \in 1..10 : Digits[d] = ch

DigitVal(ch) == (CHOOSE d \in 1..10 : Digits[d] = ch) - 1

RECURSIVE ParseDigits(_, _, _)
ParseDigits(text, i, acc) ==
    IF i > Len(text) \/ ~IsDigit(text[i]) THEN acc
    ELSE ParseDigits(text, i + 1, acc * 10 + DigitVal(text[i]))

\* parseInt(text): the value of the leading digits, <<n>>; NaN is <<>>.
ParseInt(text) ==
    IF Len(text) = 0 \/ ~IsDigit(text[1]) THEN <<>>
    ELSE <<ParseDigits(text, 1, 0)>>

\* JSON.stringify / JSON.parse of a payload; Parse throws (ParseOk is FALSE)
\* on text that is not JSON.
JsonStringify(v) == <<"json", v>>

ParseOk(text) == Len(text) = 2 /\ text[1] = "json"

JsonParse(text) == text[2]

NoItem == <<>>

StorageKeys ==
    { "orders_cache", "orders_last_fetch", "finance_cache", "finance_last_fetch",
      "dealer_details_cache", "products_cache", "last_fetch_timestamp" }

Garbled == <<"#">>

\* The number of gestures, outside events and faults explored in one behaviour
\* of the screens.
MaxEvents == 4

Event == events < MaxEvents /\ events' = events + 1

Step(op, i, s, origin, res) == [op |-> op, i |-> i, s |-> s, origin |-> origin, res |-> res]

NoStep == Step("", 0, "", "", "")

\* A gesture or outside event op on screen s.
Gesture(op, s) == Event /\ last' = Step(op, 0, s, "", "")

\* A store or storage operation settles, with a fault or without.
Fault(b) == IF b THEN Event ELSE UNCHANGED events

Tick ==
    /\ now < MaxTicks * TickMs
    /\ now' = now + TickMs
    /\ UNCHANGED <<orders, co, ledger, apiFin, apiLog, storage, screenVars>>

(***************************************************************************)
(* fetchDealerByUserId and fetchDealerFinance                              *)
(***************************************************************************)
MaxLedger == 2

MaxCalls == 2

DealerByUser(u) == { r \in DealerRows : r.user_id = u }

\* A fetchDealerByUserId that takes the first row when several match.
FetchDealerByUserIdResultFirstRow(u, fault) ==
    IF fault THEN [ok |-> FALSE, msg |-> <<StoreFault>>, row |-> <<>>]
    ELSE IF DealerByUser(u) = {}
        THEN [ok |-> FALSE, msg |-> <<"No dealer found for this user">>, row |-> <<>>]
    ELSE [ok |-> TRUE, msg |-> OK, row |-> <<CHOOSE r \in DealerByUser(u) : TRUE>>]

\* fetchDealerByUserId once its dealers select has settled: .single() errs with
\* PGRST116 unless exactly one row matches; any other store error is rethrown
\* as it is.
FetchDealerByUserIdResult(u, fault) ==
    IF fault THEN [ok |-> FALSE, msg |-> <<StoreFault>>, row |-> <<>>]
    ELSE IF Cardinality(DealerByUser(u)) # 1
        THEN [ok |-> FALSE, msg |-> <<"No dealer found for this user">>, row |-> <<>>]
    ELSE [ok |-> TRUE, msg |-> OK, row |-> <<CHOOSE r \in DealerByUser(u) : TRUE>>]

\* dealer_finance rows of the dealer, ordered by transaction_date descending.
TransactionRows(n) == [i \in 1..n |-> [id |-> n + 1 - i, amount |-> 500]]

\* The dealer_balances view row of the dealer.
BalanceRow(d, n) == [dealer_id |-> d, current_balance |-> n * 500]

TxFault == "dealer_finance unavailable"

BalFault == "dealer_balances unavailable"

FdfIdle ==
    [ pc |-> "idle", user |-> "", force |-> FALSE, dealer |-> "", tx |-> "none",
      bal |-> "none", first |-> "", queries |-> 0, out |-> "none", msg |-> OK,
      txData |-> <<>>, balData |-> <<>>, data |-> <<>> ]

FdfThrow(f, msg) ==
    [f EXCEPT !.pc = "done", !.out = "error", !.msg = msg, !.data = <<>>]

\* fetchDealerFinance(userId, forceRefresh) up to its first await.  forceRefresh
\* is not read, nor is any cache helper called.
FdfCall(u, force) ==
    IF Falsy(u)
       THEN FdfThrow([FdfIdle EXCEPT !.user = u, !.force = force], <<"User ID is required">>)
    ELSE [FdfIdle EXCEPT !.user = u, !.force = force, !.pc = "dealer", !.queries = 1]

\* Step 1 settles; on success both sub-fetches are issued (Promise.all).
FdfDealerResp(f, fault) ==
    LET r == FetchDealerByUserIdResult(f.user, fault)
    IN  IF ~r.ok THEN FdfThrow(f, r.msg)
        ELSE [f EXCEPT !.pc = "subs", !.dealer = r.row[1].id, !.tx = "pending",
                       !.bal = "pending", !.queries = 3]

\* A fetchDealerFinance that returns the transactions without the balance when
\* only the balance sub-fetch failed.
FdfSettlePartial(f) ==
    IF f.tx = "pending" \/ f.bal = "pending" THEN f
    ELSE IF f.tx = "err" THEN FdfThrow(f, <<TxFault>>)
    ELSE IF f.bal = "err"
        THEN [f EXCEPT !.pc = "done", !.out = "ok",
                       !.data = <<[transactions |-> f.txData[1], balance |-> <<>>]>>]
    ELSE [f EXCEPT !.pc = "done", !.out = "ok",
                   !.data = <<[transactions |-> f.txData[1], balance |-> f.balData[1]]>>]

\* After Promise.all: the transactions error is looked at first, then the
\* balance error; otherwise the two results are put together.
FdfSettle(f) ==
    IF f.tx = "pending" \/ f.bal = "pending" THEN f
    ELSE IF f.tx = "err" THEN FdfThrow(f, <<TxFault>>)
    ELSE IF f.bal = "err" THEN FdfThrow(f, <<BalFault>>)
    ELSE [f EXCEPT !.pc = "done", !.out = "ok",
                   !.data = <<[transactions |-> f.txData[1], balance |-> f.balData[1]]>>]

\* One of the two sub-fetches settles, with the rows the store holds then.
FdfSubResp(f, which, fault, n) ==
    LET g == IF which = "tx"
                THEN [f EXCEPT !.tx = IF fault THEN "err" ELSE "ok",
                               !.txData = IF fault THEN <<>> ELSE <<TransactionRows(n)>>]
                ELSE [f EXCEPT !.bal = IF fault THEN "err" ELSE "ok",
                               !.balData = IF fault THEN <<>> ELSE <<BalanceRow(f.dealer, n)>>]
        h == IF fault /\ f.first = "" THEN [g EXCEPT !.first = which] ELSE g
    IN  FdfSettle(h)

FdfPending(f, which) == f.pc = "subs" /\ (IF which = "tx" THEN f.tx ELSE f.bal) = "pending"

\* A settled call as its caller saw it.
LogEntry(f, startedAt) ==
    [ user |-> f.user, force |-> f.force, out |-> f.out, msg |-> f.msg,
      data |-> f.data, queries |-> f.queries, startedAt |-> startedAt, doneAt |-> now,
      dealer |-> f.dealer, tx |-> f.tx, bal |-> f.bal, first |-> f.first ]

ApiFinDone(f, startedAt) ==
    IF f.pc = "done"
       THEN /\ apiLog' = Append(apiLog, LogEntry(f, startedAt))
            /\ apiFin' = [call |-> FdfIdle, startedAt |-> 0]
       ELSE /\ apiFin' = [call |-> f, startedAt |-> startedAt]
            /\ UNCHANGED apiLog

\* A caller of the finance API calls fetchDealerFinance.
ApiFinCall(u, force) ==
    /\ apiFin.call.pc = "idle"
    /\ Len(apiLog) < MaxCalls
    /\ ApiFinDone(FdfCall(u, force), now)
    /\ UNCHANGED <<orders, co, now, ledger, storage, screenVars>>

ApiFinDealerResp(fault) ==
    /\ apiFin.call.pc = "dealer"
    /\ ApiFinDone(FdfDealerResp(apiFin.call, fault), apiFin.startedAt)
    /\ UNCHANGED <<orders, co, now, ledger, storage, screenVars>>

ApiFinSubResp(which, fault) ==
    /\ FdfPending(apiFin.call, which)
    /\ ApiFinDone(FdfSubResp(apiFin.call, which, fault, ledger), apiFin.startedAt)
    /\ UNCHANGED <<orders, co, now, ledger, storage, screenVars>>

\* A backend process posts a transaction to the dealer's ledger.
BackendPost ==
    /\ ledger < MaxLedger
    /\ ledger' = ledger + 1
    /\ UNCHANGED <<orders, co, now, apiFin, apiLog, storage, screenVars>>

\* The same, seen from a screen.
LedgerPost ==
    /\ ledger < MaxLedger
    /\ ledger' = ledger + 1
    /\ Gesture("remote", "finance")
    /\ UNCHANGED <<orders, co, now, apiFin, apiLog, storage,
                   items, user, focus, call, nav, ui, tasks, timers>>

(***************************************************************************)
(* Price charts and products of the remote store                           *)
(***************************************************************************)
MaxItems == 3

ChartRows ==
    { [id |-> "PC1", name |-> "Retail", price_chart_code |-> "PC1"],
      [id |-> "PC2", name |-> "Wholesale", price_chart_code |-> "PC2"],
      [id |-> "pc-3", name |-> "Export", price_chart_code |-> "PC3"] }

ProductRows == { [id |-> "p1", name |-> "Widget", category |-> "tools", unit |-> "pcs"] }

\* Widget on chart PC1: one active item and one superseded item.
ItemsInit ==
    << [id |-> 1, chart |-> "PC1", product |-> "p1", price |-> 900,
        effective |-> 1, expiry |-> <<2>>],
       [id |-> 2, chart |-> "PC1", product |-> "p1", price |-> 1000,
        effective |-> 2, expiry |-> <<>>] >>

\* A backend process supersedes the active item by one with a new price.
BackendReprice ==
    /\ Len(items) < MaxItems
    /\ LET n == Len(items)
           closed == [i \in 1..n |->
                        IF items[i].expiry = <<>>
                           THEN [items[i] EXCEPT !.expiry = <<n + 1>>] ELSE items[i]]
       IN  items' = Append(closed,
                       [id |-> n + 1, chart |-> "PC1", product |-> "p1",
                        price |-> 1000 + 100 * n, effective |-> n + 1, expiry |-> <<>>])
    /\ Gesture("remote", "modal")
    /\ UNCHANGED <<orders, co, now, ledger, apiFin, apiLog, storage,
                   user, focus, call, nav, ui, tasks, timers>>

\* A backend process moves an order from processing to completed.
BackendComplete(i) ==
    /\ i \in 1..Len(orders)
    /\ orders[i].row.status = "processing"
    /\ orders' = [orders EXCEPT ![i].row.status = "completed"]
    /\ Gesture("remote", "orders")
    /\ UNCHANGED <<co, now, ledger, apiFin, apiLog, storage,
                   items, user, focus, call, nav, ui, tasks, timers>>

\* The rows of set S in descending order of key (.order(..., { ascending: false })).
RECURSIVE SortDesc(_, _)
SortDesc(S, key) ==
    IF S = {} THEN <<>>
    ELSE LET top == CHOOSE x \in S : \A y \in S : key[y] <= key[x]
         IN  <<top>> \o SortDesc(S \ {top}, key)

Range(seq) == { seq[i] : i \in 1..Len(seq) }

OrderKey == [o \in Range(orders) |-> o.id]

ItemKey == [it \in Range(items) |-> it.effective]

\* fetchDealerOrders: the dealer's orders, newest first (ids grow with created_at).
DealerOrders(d) == SortDesc({ o \in Range(orders) : o.row.dealer_id = d }, OrderKey)

ProductOf(it) == CHOOSE p \in ProductRows : p.id = it.product

\* fetchPriceChartProducts (products API): the chart's items with a null expiry
\* date, latest effective date first, each flattened to a Product.
ChartProducts(chartId) ==
    LET act == SortDesc({ it \in Range(items) : it.chart = chartId /\ it.expiry = <<>> },
                        ItemKey)
    IN  [i \in 1..Len(act) |->
            [ id |-> ProductOf(act[i]).id, name |-> ProductOf(act[i]).name,
              unit |-> ProductOf(act[i]).unit, price_per_unit |-> act[i].price,
              effective_date |-> act[i].effective ]]

\* fetchPriceChartByCode: select ... .eq('id', code).single()
ChartById(code) == { c \in ChartRows : c.id = code }

(***************************************************************************)
(* The screens: React state, cache keys, async chains                      *)
(***************************************************************************)
MaxTasks == 2

MAX_RETRIES == 3

Screens == {"orders", "finance", "modal"}

TsKey(s) ==
    CASE s = "orders" -> "orders_last_fetch"
      [] s = "finance" -> "finance_last_fetch"
      [] s = "modal" -> "last_fetch_timestamp"

\* useState initial values; for the modal, mounted stands for visible.
UiInit ==
    [ s \in Screens |->
        [ mounted |-> FALSE,
          data |-> CASE s = "orders" -> <<>>
                     [] s = "finance" -> [transactions |-> <<>>, balance |-> <<>>]
                     [] s = "modal" -> [dealer |-> <<>>, products |-> <<>>],
          loading |-> (s # "modal"),
          error |-> OK,
          refreshing |-> FALSE,
          retryCount |-> 0,
          form |-> <<>> ] ]

NewTask(s, origin, u, retry, pc) ==
    [ screen |-> s, origin |-> origin, user |-> u, retry |-> retry,
      attached |-> TRUE, live |-> TRUE, pc |-> pc, f |-> FdfIdle,
      dealer |-> <<>>, texts |-> <<>>, seq |-> 0 ]

\* setState of the task's component: dropped once the component is unmounted.
Upd(t, u0, new) == IF t.attached THEN [u0 EXCEPT ![t.screen] = new] ELSE u0

\* The end of a chain: handleRefresh clears refreshing; the Finance effect's
\* initializeData schedules its interval, whatever became of its mounted flag.
Finish(t, u0) ==
    [ tag |-> "done",
      store |-> storage,
      ui |-> IF t.origin = "refresh"
                THEN Upd(t, u0, [u0[t.screen] EXCEPT !.refreshing = FALSE]) ELSE u0,
      task |-> <<>>,
      timers |-> IF t.screen = "finance" /\ t.origin = "effect"
                    THEN timers \cup {[live |-> t.live,
                                        due |-> IF t.live THEN now + CACHE_DURATION ELSE 0]}
                    ELSE timers ]

\* Mutant of FetchFailed: a failure evicts the screen's cache entry.
FetchFailedEvicts(t, u0, msg) ==
    LET v == u0[t.screen]
        w == CASE t.screen = "orders" ->
                    [v EXCEPT !.error = msg, !.loading = FALSE]
               [] t.screen = "finance" ->
                    [v EXCEPT !.error = msg, !.data.transactions = <<>>, !.loading = FALSE]
               [] t.screen = "modal" ->
                    [v EXCEPT !.error = msg, !.loading = FALSE,
                              !.retryCount = IF t.retry < MAX_RETRIES THEN @ + 1 ELSE @]
    IN  [Finish(t, Upd(t, u0, w)) EXCEPT
            !.tag = "failed",
            !.store = [k \in StorageKeys |->
                         IF k = TsKey(t.screen) THEN NoItem ELSE storage[k]]]

\* Mutant of FetchFailed: the modal counts every failure, without the test
\* retryCount < MAX_RETRIES.
FetchFailedCountsAlways(t, u0, msg) ==
    LET v == u0[t.screen]
        w == CASE t.screen = "orders" ->
                    [v EXCEPT !.error = msg, !.loading = FALSE]
               [] t.screen = "finance" ->
                    [v EXCEPT !.error = msg, !.data.transactions = <<>>, !.loading = FALSE]
               [] t.screen = "modal" ->
                    [v EXCEPT !.error = msg, !.loading = FALSE, !.retryCount = @ + 1]
    IN  [Finish(t, Upd(t, u0, w)) EXCEPT !.tag = "failed"]

\* The catch and finally blocks of fetchOrders, fetchData and fetchFreshData.
FetchFailed(t, u0, msg) ==
    LET v == u0[t.screen]
        w == CASE t.screen = "orders" ->
                    [v EXCEPT !.error = msg, !.loading = FALSE]
               [] t.screen = "finance" ->
                    [v EXCEPT !.error = msg, !.data.transactions = <<>>, !.loading = FALSE]
               [] t.screen = "modal" ->
                    [v EXCEPT !.error = msg, !.loading = FALSE,
                              !.retryCount = IF t.retry < MAX_RETRIES THEN @ + 1 ELSE @]
    IN  [Finish(t, Upd(t, u0, w)) EXCEPT !.tag = "failed"]

Going(t, u0) ==
    [tag |-> "going", store |-> storage, ui |-> u0, task |-> <<t>>, timers |-> timers]

\* Mutant of StartFetch: a refresh is skipped while the stored entry is fresh.
StartFetchUnlessFresh(t, u0) ==
    LET ts == ParseInt(storage[TsKey(t.screen)])
        u1 == IF t.screen = "modal"
                 THEN Upd(t, u0, [u0["modal"] EXCEPT !.loading = TRUE, !.error = OK])
                 ELSE u0
    IN  IF ts # <<>> /\ now - ts[1] < CACHE_DURATION
           THEN Finish(t, u0)
        ELSE IF Falsy(t.user)
           THEN FetchFailed(t, u1,
                   IF t.screen = "modal" THEN <<"User not authenticated">>
                                         ELSE <<"User ID not found">>)
        ELSE IF t.screen = "finance"
           THEN Going([t EXCEPT !.pc = "fin", !.f = FdfCall(t.user, TRUE)], u1)
        ELSE Going([t EXCEPT !.pc = "dealer"], u1)

\* fetchOrders, fetchData(true) and fetchFreshData up to their first await.
StartFetch(t, u0) ==
    LET u1 == IF t.screen = "modal"
                 THEN Upd(t, u0, [u0["modal"] EXCEPT !.loading = TRUE, !.error = OK])
                 ELSE u0
    IN  IF Falsy(t.user)
           THEN FetchFailed(t, u1,
                   IF t.screen = "modal" THEN <<"User not authenticated">>
                                         ELSE <<"User ID not found">>)
        ELSE IF t.screen = "finance"
           THEN Going([t EXCEPT !.pc = "fin", !.f = FdfCall(t.user, TRUE)], u1)
        ELSE Going([t EXCEPT !.pc = "dealer"], u1)

\* A store query of the task is in flight.
Fetching(t) == t.pc \in {"dealer", "chart", "list", "fin"}

\* What follows loadCachedData: Orders and the modal fetch on a miss only; the
\* Finance effect fetches whenever its mounted flag still holds.
AfterLoad(t, u0, hit) ==
    IF t.screen = "finance"
       THEN IF t.live THEN StartFetch(t, u0) ELSE Finish(t, u0)
    ELSE IF hit THEN Finish(t, u0)
    ELSE StartFetch(t, u0)

ReadOutcomes == {"ok", "reject", "garbled"}

\* AsyncStorage.getItem(key) settling: the stored text, or text that is not
\* what was stored; a rejected read is handled by the caller's catch.
ReadText(key, outcome) == IF outcome = "garbled" THEN Garbled ELSE storage[key]

CanRead(key, outcome) == outcome = "garbled" => storage[key] # NoItem

\* Mutant of IsFresh: an entry aged exactly CACHE_DURATION still counts as fresh.
IsFreshInclusive(text, t) ==
    /\ text # NoItem
    /\ ParseInt(text) # <<>>
    /\ t - ParseInt(text)[1] <= CACHE_DURATION

\* lastFetch && now - parseInt(lastFetch) < CACHE_DURATION
IsFresh(text, t) ==
    /\ text # NoItem
    /\ ParseInt(text) # <<>>
    /\ t - ParseInt(text)[1] < CACHE_DURATION

\* The modal's effect runs again when retryCount gave fetchFreshData a new
\* identity: it loads if the modal is visible with a profile, else resetForm.
Reruns(u1) == u1["modal"].retryCount # ui["modal"].retryCount

Loads(u1) == u1["modal"].mounted /\ ~Falsy(user)

EffectUi(u1) ==
    IF Reruns(u1) /\ ~Loads(u1)
       THEN [u1 EXCEPT !["modal"].error = OK, !["modal"].form = <<>>] ELSE u1

EffectTasks(u1) ==
    IF Reruns(u1) /\ Loads(u1)
       THEN <<NewTask("modal", "effect", user, u1["modal"].retryCount, "readTs")>>
       ELSE <<>>

\* The chain in slot i has taken a step with result r.
Apply(i, r) ==
    /\ ui' = EffectUi(r.ui)
    /\ timers' = r.timers
    /\ storage' = r.store
    /\ last' = Step("step", i, tasks[i].screen, tasks[i].origin, r.tag)
    /\ tasks' = SubSeq(tasks, 1, i - 1) \o r.task \o SubSeq(tasks, i + 1, Len(tasks))
                \o EffectTasks(r.ui)

\* loadCachedData: the timestamp read settles.
ReadTs(i, outcome) ==
    /\ i \in 1..Len(tasks)
    /\ tasks[i].pc = "readTs"
    /\ CanRead(TsKey(tasks[i].screen), outcome)
    /\ LET t == tasks[i]
           text == ReadText(TsKey(t.screen), outcome)
       IN  Apply(i, IF outcome # "reject" /\ IsFresh(text, now)
                       THEN Going([t EXCEPT !.pc = "readData"], ui)
                       ELSE AfterLoad(t, ui, FALSE))
    /\ Fault(outcome # "ok")
    /\ UNCHANGED <<orders, co, now, ledger, apiFin, apiLog, items, user, focus, call, nav>>

Present(text) == text # NoItem

\* What the Orders and Finance screens set from the parsed payload.
FromCache(s, parsed) ==
    IF s = "finance"
       THEN [transactions |-> parsed.transactions, balance |-> <<parsed.balance>>]
       ELSE parsed

\* Mutant of LoadOne: a rejected read is shown as an error.
LoadOneReports(t, key, outcome) ==
    LET text == ReadText(key, outcome)
        v == ui[t.screen]
    IN  IF outcome = "reject"
           THEN AfterLoad(t, Upd(t, ui, [v EXCEPT !.error = <<"Error loading cached data">>]),
                          FALSE)
        ELSE IF ~Present(text) \/ ~ParseOk(text)
           THEN AfterLoad(t, ui, FALSE)
        ELSE AfterLoad(t, Upd(t, ui, [v EXCEPT !.data = FromCache(t.screen, JsonParse(text))]),
                       TRUE)

\* loadCachedData of Orders and Finance: the payload read settles.
LoadOne(t, key, outcome) ==
    LET text == ReadText(key, outcome)
        v == ui[t.screen]
    IN  IF outcome = "reject" \/ ~Present(text) \/ ~ParseOk(text)
           THEN AfterLoad(t, ui, FALSE)
        ELSE AfterLoad(t, Upd(t, ui, [v EXCEPT !.data = FromCache(t.screen, JsonParse(text))]),
                       TRUE)

\* loadCachedData of the modal: both reads settle (Promise.all); the dealer
\* details are parsed and set before the products are parsed.
LoadTwo(t, o1, o2) ==
    LET d == ReadText("dealer_details_cache", o1)
        p == ReadText("products_cache", o2)
        v == ui[t.screen]
    IN  IF o1 = "reject" \/ o2 = "reject" \/ ~Present(d) \/ ~Present(p) \/ ~ParseOk(d)
           THEN AfterLoad(t, ui, FALSE)
        ELSE IF ~ParseOk(p)
           THEN AfterLoad(t, Upd(t, ui, [v EXCEPT !.data.dealer = <<JsonParse(d)>>]), FALSE)
        ELSE AfterLoad(t, Upd(t, ui, [v EXCEPT !.data = [dealer |-> <<JsonParse(d)>>,
                                                        products |-> JsonParse(p)]]), TRUE)

ReadData(i, o1, o2) ==
    /\ i \in 1..Len(tasks)
    /\ tasks[i].pc = "readData"
    /\ LET t == tasks[i]
       IN  CASE t.screen = "orders" ->
                  /\ o2 = "ok" /\ CanRead("orders_cache", o1)
                  /\ Apply(i, LoadOne(t, "orders_cache", o1))
             [] t.screen = "finance" ->
                  /\ o2 = "ok" /\ CanRead("finance_cache", o1)
                  /\ Apply(i, LoadOne(t, "finance_cache", o1))
             [] t.screen = "modal" ->
                  /\ CanRead("dealer_details_cache", o1) /\ CanRead("products_cache", o2)
                  /\ Apply(i, LoadTwo(t, o1, o2))
    /\ Fault(o1 # "ok" \/ o2 # "ok")
    /\ UNCHANGED <<orders, co, now, ledger, apiFin, apiLog, items, user, focus, call, nav>>

\* The DealerDetails that fetchDealerDetails builds.
DetailsOf(row, chart) ==
    [ id |-> row.id, name |-> row.name, dealer_code |-> row.dealer_code,
      salesman_id |-> row.salesman_id, price_chart |-> chart ]

\* fetchDealerDetails returns: setDealerDetails, then the price chart check.
DetailsDone(t, row, chart) ==
    LET details == DetailsOf(row, chart)
        u1 == Upd(t, ui, [ui[t.screen] EXCEPT !.data.dealer = <<details>>])
    IN  IF chart = <<>>
           THEN FetchFailed(t, u1, <<"No price chart assigned to dealer">>)
           ELSE Going([t EXCEPT !.pc = "list", !.dealer = <<details>>], u1)

\* The dealers select of fetchDealerByUserId settles (Orders, modal).
DealerResp(i, fault) ==
    /\ i \in 1..Len(tasks)
    /\ tasks[i].pc = "dealer"
    /\ LET t == tasks[i]
           r == FetchDealerByUserIdResult(t.user, fault)
       IN  Apply(i, IF ~r.ok THEN FetchFailed(t, ui, r.msg)
                    ELSE IF t.screen = "orders"
                       THEN Going([t EXCEPT !.pc = "list", !.dealer = r.row], ui)
                    ELSE IF ~Falsy(r.row[1].price_chart_code)
                       THEN Going([t EXCEPT !.pc = "chart", !.dealer = r.row], ui)
                    ELSE DetailsDone(t, r.row[1], <<>>))
    /\ Fault(fault)
    /\ UNCHANGED <<orders, co, now, ledger, apiFin, apiLog, items, user, focus, call, nav>>

\* fetchPriceChartByCode settles inside fetchDealerDetails; its failure is
\* caught there and leaves price_chart null.
ChartResp(i, fault) ==
    /\ i \in 1..Len(tasks)
    /\ tasks[i].pc = "chart"
    /\ LET t == tasks[i]
           found == ChartById(t.dealer[1].price_chart_code)
           chart == IF fault \/ found = {} THEN <<>> ELSE <<CHOOSE c \in found : TRUE>>
       IN  Apply(i, DetailsDone(t, t.dealer[1], chart))
    /\ Fault(fault)
    /\ UNCHANGED <<orders, co, now, ledger, apiFin, apiLog, items, user, focus, call, nav>>

\* saveToCache called at time t: the setItem calls it issues.
SaveTexts(s, data, t) ==
    CASE s = "orders" ->
            << <<"orders_cache", JsonStringify(data)>>,
               <<"orders_last_fetch", NumToString(t)>> >>
      [] s = "finance" ->
            << <<"finance_cache", JsonStringify([transactions |-> data.transactions,
                                                 balance |-> data.balance[1]])>>,
               <<"finance_last_fetch", NumToString(t)>> >>
      [] s = "modal" ->
            << <<"dealer_details_cache", JsonStringify(data.dealer[1])>>,
               <<"products_cache", JsonStringify(data.products)>>,
               <<"last_fetch_timestamp", NumToString(t)>> >>

\* The chains whose saveToCache has issued its setItem calls and awaits them.
Saving == { j \in 1..Len(tasks) : tasks[j].pc = "save" }

\* The place of a new saveToCache call behind the calls that are pending.
NextSeq ==
    IF Saving = {} THEN 1
    ELSE 1 + (CHOOSE n \in { tasks[j].seq : j \in Saving } :
                 \A j \in Saving : tasks[j].seq <= n)

\* A successful fetch: the payload is set on screen and saveToCache is called.
FetchOk(t, u0, data) ==
    Going([t EXCEPT !.pc = "save", !.texts = SaveTexts(t.screen, data, now),
                    !.seq = NextSeq],
          Upd(t, u0, [u0[t.screen] EXCEPT !.data = data]))

\* fetchDealerOrders (Orders) or fetchPriceChartProducts (modal) settles.
ListResp(i, fault) ==
    /\ i \in 1..Len(tasks)
    /\ tasks[i].pc = "list"
    /\ LET t == tasks[i]
       IN  Apply(i,
              IF t.screen = "orders"
                 THEN IF fault THEN FetchFailed(t, ui, <<StoreFault>>)
                      ELSE FetchOk(t, ui, DealerOrders(t.dealer[1].id))
                 ELSE IF fault
                      THEN FetchFailed(t, ui, <<"Failed to fetch products: ", StoreFault>>)
                      ELSE FetchOk(t, ui, [dealer |-> t.dealer,
                                           products |-> ChartProducts(t.dealer[1].price_chart[1].id)]))
    /\ Fault(fault)
    /\ UNCHANGED <<orders, co, now, ledger, apiFin, apiLog, items, user, focus, call, nav>>

\* fetchData: fetchDealerFinance has settled.
FinanceSettled(t, f) ==
    IF f.pc # "done" THEN Going([t EXCEPT !.f = f], ui)
    ELSE IF f.out = "error" THEN FetchFailed([t EXCEPT !.f = f], ui, f.msg)
    ELSE FetchOk([t EXCEPT !.f = f], ui,
                 [transactions |-> f.data[1].transactions, balance |-> <<f.data[1].balance>>])

FinDealerResp(i, fault) ==
    /\ i \in 1..Len(tasks)
    /\ tasks[i].pc = "fin"
    /\ tasks[i].f.pc = "dealer"
    /\ Apply(i, FinanceSettled(tasks[i], FdfDealerResp(tasks[i].f, fault)))
    /\ Fault(fault)
    /\ UNCHANGED <<orders, co, now, ledger, apiFin, apiLog, items, user, focus, call, nav>>

FinSubResp(i, which, fault) ==
    /\ i \in 1..Len(tasks)
    /\ tasks[i].pc = "fin"
    /\ FdfPending(tasks[i].f, which)
    /\ Apply(i, FinanceSettled(tasks[i], FdfSubResp(tasks[i].f, which, fault, ledger)))
    /\ Fault(fault)
    /\ UNCHANGED <<orders, co, now, ledger, apiFin, apiLog, items, user, focus, call, nav>>

\* What follows "await saveToCache(...)" in each screen.
AfterSave(t, u0) ==
    LET v == u0[t.screen]
        w == CASE t.screen = "orders" -> [v EXCEPT !.loading = FALSE]
               [] t.screen = "finance" -> [v EXCEPT !.error = OK, !.loading = FALSE]
               [] t.screen = "modal" -> [v EXCEPT !.retryCount = 0, !.loading = FALSE]
    IN  Finish([t EXCEPT !.texts = <<>>], Upd(t, u0, w))

\* AsyncStorage after the setItem calls of texts settled, those in oks with success.
Written(texts, oks) ==
    [ k \in StorageKeys |->
        IF \E j \in oks : texts[j][1] = k
           THEN texts[CHOOSE j \in oks : texts[j][1] = k][2]
           ELSE storage[k] ]

\* A storage that would settle pending saveToCache calls in any order.
SaveTurnAny(i) == i \in Saving

\* AsyncStorage carries out its operations in the order they were issued.
SaveTurn(i) == i \in Saving /\ \A j \in Saving : tasks[i].seq <= tasks[j].seq

\* saveToCache settles: each setItem succeeded or failed; a failure is logged.
SaveDone(i, oks) ==
    /\ i \in 1..Len(tasks)
    /\ tasks[i].pc = "save"
    /\ SaveTurn(i)
    /\ oks \subseteq 1..Len(tasks[i].texts)
    /\ Apply(i, [AfterSave(tasks[i], ui) EXCEPT !.store = Written(tasks[i].texts, oks)])
    /\ Fault(oks # 1..Len(tasks[i].texts))
    /\ UNCHANGED <<orders, co, now, ledger, apiFin, apiLog, items, user, focus, call, nav>>

(***************************************************************************)
(* The AuthProvider and the route guard                                    *)
(***************************************************************************)
\* The routes: the (auth) group and two routes of the (app) group.
Routes == {"login", "signup", "no-access", "home", "orders"}

\* useSegments() on a route.
Segments(route) ==
    CASE route = "login" -> <<"(auth)", "login">>
      [] route = "signup" -> <<"(auth)", "signup">>
      [] route = "no-access" -> <<"(auth)", "no-access">>
      [] route = "home" -> <<"(app)">>
      [] route = "orders" -> <<"(app)", "orders">>

\* The accounts that can hold a session, and their rows in profiles ("missing"
\* has none).
Accounts == {"dealer", "other", "inactive", "missing"}

ProfileRows ==
    { [user_id |-> "dealer", role |-> "dealer", status |-> "active"],
      [user_id |-> "other", role |-> "salesman", status |-> "active"],
      [user_id |-> "inactive", role |-> "dealer", status |-> "inactive"] }

\* The provider outside the route specification: nothing loaded, nothing pending.
NavIdle ==
    [ session |-> "", role |-> "none", route |-> "login", loading |-> FALSE,
      pc |-> "idle", pending |-> <<>> ]

(***************************************************************************)
(* Specifications of the API layer                                         *)
(***************************************************************************)
InitCommon ==
    /\ orders = <<>>
    /\ co = CoIdle
    /\ now = 0
    /\ ledger = 0
    /\ apiFin = [call |-> FdfIdle, startedAt |-> 0]
    /\ apiLog = <<>>
    /\ storage = [k \in StorageKeys |-> NoItem]
    /\ items = ItemsInit
    /\ user = ""
    /\ focus = "none"
    /\ ui = UiInit
    /\ tasks = <<>>
    /\ call = CallIdle
    /\ nav = NavIdle
    /\ events = 0
    /\ last = NoStep
    /\ timers = {}

NextOrder ==
    \/ \E c \in Candidates : CreateOrderCall(c)
    \/ \E fault \in BOOLEAN : CreateOrderDealerResp(fault)
    \/ \E fault \in BOOLEAN : CreateOrderInsertResp(fault)
    \/ CreateOrderReturn

SpecOrder == InitCommon /\ [][NextOrder]_vars

NextFinanceApi ==
    \/ \E u \in {"", "u1", "u9"}, force \in BOOLEAN : ApiFinCall(u, force)
    \/ \E fault \in BOOLEAN : ApiFinDealerResp(fault)
    \/ \E which \in {"tx", "bal"}, fault \in BOOLEAN : ApiFinSubResp(which, fault)
    \/ BackendPost
    \/ Tick

SpecFinanceApi == InitCommon /\ [][NextFinanceApi]_vars

(***************************************************************************)
(* Claims about order submission                                           *)
(***************************************************************************)
\* The seven validator rules, in the order the specification lists them.
RuleViolated(i, c) ==
    CASE i = 1 -> c.dealer_id = ""
      [] i = 2 -> c.product_id = ""
      [] i = 3 -> c.product_name = ""
      [] i = 4 -> c.unit = ""
      [] i = 5 -> c.quantity <= 0
      [] i = 6 -> c.price_per_unit <= 0
      [] i = 7 -> c.total_price <= 0

RuleMessage(i) ==
    CASE i = 1 -> <<"Dealer ID is required">>
      [] i = 2 -> <<"Product ID is required">>
      [] i = 3 -> <<"Product name is required">>
      [] i = 4 -> <<"Unit is required">>
      [] i = 5 -> <<"Quantity must be greater than 0">>
      [] i = 6 -> <<"Price per unit must be greater than 0">>
      [] i = 7 -> <<"Total price must be greater than 0">>

InvalidCandidate(c) == \E i \in 1..7 : RuleViolated(i, c)

\* C1: a createOrder call on a candidate that violates one of the seven rules
\* settles in the very step it is made, as a failure, with no store call issued
\* (no dealers select, no orders insert) and the orders table unchanged.
C1_InvalidOrderNoStoreCall ==
    [][ (co.pc = "idle" /\ co'.pc # "idle" /\ InvalidCandidate(co'.data))
          => /\ co'.pc = "settled"
             /\ co'.outcome = "error"
             /\ co'.calls = <<>>
             /\ orders' = orders ]_vars

C1_Witness ==
    /\ co.pc = "settled"
    /\ co.outcome = "error"
    /\ co.calls = <<>>
    /\ co.data.quantity = -1
    /\ ~RuleViolated(1, co.data) /\ ~RuleViolated(2, co.data)
    /\ ~RuleViolated(3, co.data) /\ ~RuleViolated(4, co.data)
    /\ Len(orders) = 1

\* C2: an order that createOrder inserted carries total_price = quantity *
\* price_per_unit of its candidate, whatever total_price the candidate had.
C2_TotalRecomputed ==
    co.outcome = "ok"
        => /\ Len(co.created) = 1
           /\ co.created[1].row.total_price
                = co.data.quantity * co.data.price_per_unit
           /\ orders[Len(orders)] = co.created[1]

C2_Witness ==
    /\ co.outcome = "ok"
    /\ co.data.total_price = 9999
    /\ co.created[1].row.total_price = 10000

\* C3 as claimed: a candidate that satisfies the seven rules reaches the store
\* (the dealers select is issued and, once it succeeds, the insert), whatever
\* its price_chart_id.
C3_SevenRulesReachStore ==
    (co.pc # "idle" /\ ~InvalidCandidate(co.data))
        => /\ Len(co.calls) >= 1
           /\ co.calls[1] = "dealers.select"
           /\ (co.dealerOk => co.calls = <<"dealers.select", "orders.insert">>)

\* C3 (amended): a candidate that satisfies the seven rules and has a non-empty
\* price_chart_id reaches the store: the dealers select is issued and, once it
\* succeeds, the insert is submitted; a total_price that differs from quantity *
\* price_per_unit does not stop it.
C3_SevenRulesAndChartReachStore ==
    (co.pc # "idle" /\ ~InvalidCandidate(co.data) /\ ~Falsy(co.data.price_chart_id))
        => /\ Len(co.calls) >= 1
           /\ co.calls[1] = "dealers.select"
           /\ (co.dealerOk => co.calls = <<"dealers.select", "orders.insert">>)

C3_Witness ==
    /\ co.pc = "settled"
    /\ co.outcome = "ok"
    /\ co.data.quantity = 5 /\ co.data.price_per_unit = 2000
    /\ co.data.total_price = 9999
    /\ co.calls = <<"dealers.select", "orders.insert">>

\* C4: a failed validation reports the error of the earliest violated rule in
\* the order dealer id, product id, product name, unit, quantity, unit price,
\* total price.
C4_FirstViolatedRule ==
    \A i \in 1..7 :
        ( /\ co.pc = "settled"
          /\ RuleViolated(i, co.data)
          /\ \A j \in 1..(i - 1) : ~RuleViolated(j, co.data) )
            => co.outcome = "error" /\ co.msg = RuleMessage(i)

C4_Witness ==
    /\ co.pc = "settled"
    /\ RuleViolated(5, co.data) /\ RuleViolated(6, co.data) /\ RuleViolated(7, co.data)
    /\ \A j \in 1..4 : ~RuleViolated(j, co.data)
    /\ co.msg = RuleMessage(5)

(***************************************************************************)
(* Claims about fetchDealerFinance                                         *)
(***************************************************************************)
\* C5 as claimed: of two non-forced fetchDealerFinance calls for the same user,
\* the second made within the 5-minute window of the first, successful one,
\* the second issues no store query and returns the first one's payload.
C5_SecondCallServedFromCache ==
    ( /\ Len(apiLog) = 2
      /\ ~apiLog[1].force /\ ~apiLog[2].force
      /\ apiLog[1].user = apiLog[2].user
      /\ apiLog[1].out = "ok"
      /\ apiLog[2].startedAt - apiLog[1].doneAt < CACHE_DURATION )
        => /\ apiLog[2].queries = 0
           /\ apiLog[2].out = "ok"
           /\ apiLog[2].data = apiLog[1].data

(***************************************************************************)
(* Gestures, effects and the environment of the screens                    *)
(***************************************************************************)
\* The initial-load effect of screen s run for user u: the tasks it starts.
RunEffect(s, u, v) ==
    IF v.mounted /\ ~Falsy(u)
       THEN <<NewTask(s, "effect", u, v.retryCount, "readTs")>>
       ELSE <<>>

\* The cleanup of the Finance effect: mounted = false, clearInterval.
CleanTask(t) ==
    IF t.screen = "finance" /\ t.origin = "effect" THEN [t EXCEPT !.live = FALSE] ELSE t

CleanTimers == { tm \in timers : ~tm.live }

\* The user navigates to the Orders or Finance screen.
Mount(s) ==
    /\ s \in {"orders", "finance"}
    /\ focus = s
    /\ ~ui[s].mounted
    /\ Len(tasks) < MaxTasks
    /\ ui' = [ui EXCEPT ![s] = [UiInit[s] EXCEPT !.mounted = TRUE]]
    /\ tasks' = tasks \o RunEffect(s, user, ui'[s])
    /\ Gesture("mount", s)
    /\ UNCHANGED <<orders, co, now, ledger, apiFin, apiLog, storage, items, user, focus, call, nav,
                   timers>>

\* The screen leaves the stack: its state is gone, its chains go on detached.
Unmount(s) ==
    /\ s \in {"orders", "finance"}
    /\ focus = s
    /\ ui[s].mounted
    /\ ui' = [ui EXCEPT ![s] = UiInit[s]]
    /\ tasks' = [i \in 1..Len(tasks) |->
                    IF tasks[i].screen = s
                       THEN [CleanTask(tasks[i]) EXCEPT !.attached = FALSE]
                       ELSE tasks[i]]
    /\ timers' = IF s = "finance" THEN CleanTimers ELSE timers
    /\ Gesture("unmount", s)
    /\ UNCHANGED <<orders, co, now, ledger, apiFin, apiLog, storage, items, user, focus, call, nav>>

\* The "New" tab shows the modal; the component keeps its state while hidden.
OpenModal ==
    /\ focus = "modal"
    /\ ~ui["modal"].mounted
    /\ Len(tasks) < MaxTasks
    /\ ui' = [ui EXCEPT !["modal"].mounted = TRUE]
    /\ tasks' = tasks \o RunEffect("modal", user, ui'["modal"])
    /\ Gesture("open", "modal")
    /\ UNCHANGED <<orders, co, now, ledger, apiFin, apiLog, storage, items, user, focus, call, nav,
                   timers>>

\* onClose: the effect's else branch resets the form and the error.
CloseModal ==
    /\ focus = "modal"
    /\ ui["modal"].mounted
    /\ ui' = [ui EXCEPT !["modal"].mounted = FALSE, !["modal"].error = OK,
                         !["modal"].form = <<>>]
    /\ Gesture("close", "modal")
    /\ UNCHANGED <<orders, co, now, ledger, apiFin, apiLog, storage, items, user, focus, call, nav,
                   tasks, timers>>

Spawn(op, s, r) ==
    /\ ui' = EffectUi(r.ui)
    /\ timers' = r.timers
    /\ storage' = r.store
    /\ last' = Step(op, 0, s, op, r.tag)
    /\ tasks' = tasks \o r.task \o EffectTasks(r.ui)

\* Pull-to-refresh: handleRefresh.  The Finance screen renders its list only
\* with a profile.
Refresh(s) ==
    /\ focus = s
    /\ ui[s].mounted
    /\ s = "finance" => ~Falsy(user)
    /\ Len(tasks) < MaxTasks
    /\ Spawn("refresh", s,
             StartFetch(NewTask(s, "refresh", user, ui[s].retryCount, "start"),
                        [ui EXCEPT ![s].refreshing = TRUE]))
    /\ Event
    /\ UNCHANGED <<orders, co, now, ledger, apiFin, apiLog, items, user, focus, call, nav>>

\* The modal's Retry button, shown with an error while retryCount < MAX_RETRIES.
Retry ==
    /\ focus = "modal"
    /\ ui["modal"].mounted
    /\ ui["modal"].error # OK
    /\ ui["modal"].retryCount < MAX_RETRIES
    /\ Len(tasks) < MaxTasks
    /\ Spawn("retry", "modal",
             StartFetch(NewTask("modal", "retry", user, ui["modal"].retryCount, "start"),
                        ui))
    /\ Event
    /\ UNCHANGED <<orders, co, now, ledger, apiFin, apiLog, items, user, focus, call, nav>>

\* The Finance interval fires: fetchData(true) if the effect is still mounted.
IntervalTick(tm) ==
    /\ tm \in timers
    /\ now >= tm.due
    /\ Len(tasks) < MaxTasks
    /\ LET r == IF tm.live
                   THEN StartFetch(NewTask("finance", "interval", user, 0, "start"), ui)
                   ELSE Finish(NewTask("finance", "interval", user, 0, "start"), ui)
       IN  /\ ui' = r.ui
           /\ storage' = r.store
           /\ last' = Step("interval", 0, "finance",
                            IF tm.live THEN "interval" ELSE "", r.tag)
           /\ tasks' = tasks \o r.task
           /\ timers' = IF tm.live
                           THEN (timers \ {tm}) \cup {[tm EXCEPT !.due = now + CACHE_DURATION]}
                           ELSE timers
    /\ UNCHANGED events
    /\ UNCHANGED <<orders, co, now, ledger, apiFin, apiLog, items, user, focus, call, nav>>

\* profile?.user_id changes: every mounted screen's effect is cleaned up and run again.
UserChanges(u) ==
    /\ u # user
    /\ Len(tasks) < MaxTasks
    /\ user' = u
    /\ timers' = CleanTimers
    /\ tasks' = [i \in 1..Len(tasks) |-> CleanTask(tasks[i])]
                \o RunEffect(focus, u, ui[focus])
    /\ ui' = IF ui["modal"].mounted /\ ~Falsy(u)
                THEN ui ELSE [ui EXCEPT !["modal"].error = OK, !["modal"].form = <<>>]
    /\ Gesture("user", focus)
    /\ UNCHANGED <<orders, co, now, ledger, apiFin, apiLog, storage, items, focus, call, nav>>

\* AuthProvider.fetchProfile has set the profile.
ProfileLoaded == user = "" /\ \E u \in {"u1", "u2"} : UserChanges(u)

\* AuthProvider.signOut: setProfile(null).
SignOut == user # "" /\ UserChanges("")

\* Time passes while the app is open.
Elapse(k) ==
    /\ now + k * TickMs <= MaxTicks * TickMs
    /\ now' = now + k * TickMs
    /\ Gesture("elapse", focus)
    /\ UNCHANGED <<orders, co, ledger, apiFin, apiLog, storage,
                   items, user, focus, call, nav, ui, tasks, timers>>

\* What an earlier session left in AsyncStorage at time 0, if it ran.
EarlierSession(s) ==
    CASE s = "orders" -> SaveTexts(s, DealerOrders("d1"), 0)
      [] s = "finance" ->
            SaveTexts(s, [transactions |-> TransactionRows(1),
                          balance |-> <<BalanceRow("d1", 1)>>], 0)
      [] s = "modal" ->
            SaveTexts(s, [dealer |-> <<DetailsOf(CHOOSE r \in DealerByUser("u1") : TRUE,
                                                 <<CHOOSE c \in ChartById("PC1") : TRUE>>)>>,
                          products |-> ChartProducts("PC1")], 0)

StorageAfter(texts) ==
    [ k \in StorageKeys |->
        IF \E j \in 1..Len(texts) : texts[j][1] = k
           THEN texts[CHOOSE j \in 1..Len(texts) : texts[j][1] = k][2]
           ELSE NoItem ]

(***************************************************************************)
(* Specification of the screens                                            *)
(***************************************************************************)
\* An order placed in an earlier session is in the store.
OrdersInit ==
    << [ id |-> 1, created_at |-> 0,
         row |-> InsertPayload([NoCandidate EXCEPT !.dealer_id = "d1", !.product_id = "p1",
                                   !.product_name = "Widget", !.unit = "pcs",
                                   !.quantity = 5, !.price_chart_id = "PC1",
                                   !.price_per_unit = 1000, !.total_price = 5000], "s1") ] >>

InitScreens ==
    /\ orders = OrdersInit
    /\ co = CoIdle
    /\ now = 0
    /\ ledger = 1
    /\ apiFin = [call |-> FdfIdle, startedAt |-> 0]
    /\ apiLog = <<>>
    /\ items = ItemsInit
    /\ user = ""
    /\ focus \in Screens
    /\ storage \in { StorageAfter(<<>>), StorageAfter(EarlierSession(focus)) }
    /\ ui = UiInit
    /\ tasks = <<>>
    /\ call = CallIdle
    /\ nav = NavIdle
    /\ events = 0
    /\ last = NoStep
    /\ timers = {}

\* The Finance screen just opened by a signed-in dealer: its effect has started.
InitFinanceScreen ==
    /\ orders = OrdersInit
    /\ co = CoIdle
    /\ now = 0
    /\ ledger = 1
    /\ apiFin = [call |-> FdfIdle, startedAt |-> 0]
    /\ apiLog = <<>>
    /\ items = ItemsInit
    /\ user = "u1"
    /\ focus = "finance"
    /\ storage \in { StorageAfter(<<>>), StorageAfter(EarlierSession("finance")) }
    /\ ui = [UiInit EXCEPT !["finance"].mounted = TRUE]
    /\ tasks = RunEffect("finance", "u1", ui["finance"])
    /\ call = CallIdle
    /\ nav = NavIdle
    /\ events = 1
    /\ last = Step("mount", 0, "finance", "", "")
    /\ timers = {}

Remote ==
    CASE focus = "orders" -> BackendComplete(1)
      [] focus = "finance" -> LedgerPost
      [] focus = "modal" -> BackendReprice

NextScreens ==
    \/ \E s \in {"orders", "finance"} : Mount(s)
    \/ \E s \in {"orders", "finance"} : Unmount(s)
    \/ OpenModal
    \/ CloseModal
    \/ \E s \in Screens : Refresh(s)
    \/ Retry
    \/ \E tm \in timers : IntervalTick(tm)
    \/ ProfileLoaded
    \/ SignOut
    \/ \E i \in 1..MaxTasks, o \in ReadOutcomes : ReadTs(i, o)
    \/ \E i \in 1..MaxTasks, o1, o2 \in ReadOutcomes : ReadData(i, o1, o2)
    \/ \E i \in 1..MaxTasks, fault \in BOOLEAN : DealerResp(i, fault)
    \/ \E i \in 1..MaxTasks, fault \in BOOLEAN : ChartResp(i, fault)
    \/ \E i \in 1..MaxTasks, fault \in BOOLEAN : ListResp(i, fault)
    \/ \E i \in 1..MaxTasks, fault \in BOOLEAN : FinDealerResp(i, fault)
    \/ \E i \in 1..MaxTasks, which \in {"tx", "bal"}, fault \in BOOLEAN :
            FinSubResp(i, which, fault)
    \/ \E i \in 1..MaxTasks, oks \in SUBSET (1..3) : SaveDone(i, oks)
    \/ Remote
    \/ \E k \in 1..MaxTicks : Elapse(k)

NextFinanceScreen ==
    \/ Mount("finance")
    \/ Unmount("finance")
    \/ Refresh("finance")
    \/ \E tm \in timers : IntervalTick(tm)
    \/ ProfileLoaded
    \/ SignOut
    \/ \E i \in 1..MaxTasks, o \in ReadOutcomes : ReadTs(i, o)
    \/ \E i \in 1..MaxTasks, o \in ReadOutcomes : ReadData(i, o, "ok")
    \/ \E i \in 1..MaxTasks, fault \in BOOLEAN : FinDealerResp(i, fault)
    \/ \E i \in 1..MaxTasks, which \in {"tx", "bal"}, fault \in BOOLEAN :
            FinSubResp(i, which, fault)
    \/ \E i \in 1..MaxTasks, oks \in SUBSET (1..2) : SaveDone(i, oks)
    \/ LedgerPost
    \/ \E k \in 1..MaxTicks : Elapse(k)

SpecFinanceScreen == InitFinanceScreen /\ [][NextFinanceScreen]_vars

SpecScreens == InitScreens /\ [][NextScreens]_vars

(***************************************************************************)
(* Claims about the screens' caches                                        *)
(***************************************************************************)
FiveMinutes == 5 * 60 * 1000

PayloadKeys(s) ==
    CASE s = "orders" -> {"orders_cache"}
      [] s = "finance" -> {"finance_cache"}
      [] s = "modal" -> {"dealer_details_cache", "products_cache"}

\* The stored timestamp is present and less than five minutes old.
Young(s) ==
    LET ts == storage[TsKey(s)]
    IN  ts # NoItem /\ ParseInt(ts) # <<>> /\ now - ParseInt(ts)[1] < FiveMinutes

Stocked(s) == \A k \in PayloadKeys(s) : storage[k] # NoItem

\* The stored entry of screen s is Valid.
Valid(s) == Young(s) /\ Stocked(s)

\* The stored payload of screen s, as the screen holds it.
Cached(s) ==
    CASE s = "orders" -> JsonParse(storage["orders_cache"])
      [] s = "finance" ->
            [ transactions |-> JsonParse(storage["finance_cache"]).transactions,
              balance |-> <<JsonParse(storage["finance_cache"]).balance>> ]
      [] s = "modal" ->
            [ dealer |-> <<JsonParse(storage["dealer_details_cache"])>>,
              products |-> JsonParse(storage["products_cache"]) ]

\* The step taken is a step of the chain in slot last'.i.
ChainStep ==
    /\ last'.op = "step"
    /\ last'.i \in 1..Len(tasks)
    /\ tasks[last'.i].screen = last'.s
    /\ tasks[last'.i].origin = last'.origin

\* The chain that stepped goes on, now at pc.
GoesOnAt(pcs) ==
    /\ last'.res = "going"
    /\ last'.i \in 1..Len(tasks')
    /\ tasks'[last'.i].pc \in pcs

\* C6: on the initial load of the Orders screen and of the NewOrderModal, with
\* storage reads that return what is stored: a Valid entry (timestamp less
\* than five minutes old, payload present) is shown and no remote fetch is
\* issued; an Empty or Stale entry (age of five minutes or more) is not
\* served and the remote fetcher is invoked.
C6_InitialLoadServesValidEntryOnly ==
    [][ ( /\ ChainStep
          /\ last'.origin = "effect"
          /\ last'.s \in {"orders", "modal"}
          /\ events' = events )
        => LET t == tasks[last'.i]
               s == last'.s
           IN  /\ (t.pc = "readTs" /\ Young(s)) => GoesOnAt({"readData"})
               /\ (t.pc = "readTs" /\ ~Young(s)) =>
                      GoesOnAt({"dealer"}) /\ ui'[s].data = ui[s].data
               /\ (t.pc = "readData" /\ Stocked(s)) =>
                      /\ last'.res = "done"
                      /\ Len(tasks') = Len(tasks) - 1
                      /\ t.attached => ui'[s].data = Cached(s)
               /\ (t.pc = "readData" /\ ~Stocked(s)) =>
                      GoesOnAt({"dealer"}) /\ ui'[s].data = ui[s].data
      ]_vars

\* An entry aged exactly five minutes was found, and the remote fetch is in flight.
C6_Witness ==
    /\ last.op = "step" /\ last.origin = "effect" /\ last.res = "going"
    /\ last.s \in {"orders", "modal"}
    /\ events = 3
    /\ Stocked(last.s)
    /\ ParseInt(storage[TsKey(last.s)]) = <<now - FiveMinutes>>
    /\ tasks[last.i].pc = "dealer"

\* The fetchData(true) of the Finance screen's initial load and interval tick
\* always reaches the store.
FinanceForcedLoadsFetch ==
    /\ (ChainStep /\ last'.s = "finance" /\ last'.origin = "effect"
            /\ tasks[last'.i].live /\ tasks[last'.i].pc \in {"readTs", "readData"})
       => GoesOnAt(IF tasks[last'.i].pc = "readTs" THEN {"readData", "fin"} ELSE {"fin"})
    /\ (last'.op = "interval" /\ last'.origin = "interval")
       => /\ last'.res = "going"
          /\ tasks'[Len(tasks')].pc = "fin"
          /\ tasks'[Len(tasks')].f.pc = "dealer"

\* The chain started by the gesture has a store query in flight.
StartedFetch ==
    /\ last'.res = "going"
    /\ Len(tasks') = Len(tasks) + 1
    /\ Fetching(tasks'[Len(tasks')])

\* C7 as stated: every pull-to-refresh on the Orders, Finance and NewOrderModal
\* screens and every fetchData(true) of the Finance screen invokes the remote
\* fetcher, whatever the age of the stored entry.
C7_ForcedLoadAlwaysFetches ==
    [][ /\ FinanceForcedLoadsFetch
        /\ last'.op = "refresh" => StartedFetch
      ]_vars

\* C7, amended: every pull-to-refresh made while a profile user id is loaded,
\* and every fetchData(true) of the Finance screen, invokes the remote fetcher,
\* whatever the age of the stored entry.
C7_ForcedLoadFetchesWithProfile ==
    [][ /\ FinanceForcedLoadsFetch
        /\ (last'.op = "refresh" /\ ~Falsy(user)) => StartedFetch
      ]_vars

\* A pull-to-refresh over a Valid entry has a store query in flight.
C7_Witness ==
    /\ last.op = "refresh" /\ last.res = "going"
    /\ Valid(last.s)
    /\ Fetching(tasks[Len(tasks)])

\* C8: when a remote fetch started by a refresh fails, the payload keys and
\* the timestamp key of every cache are left as they were, so a Valid entry
\* stays Valid with the same payload.
C8_FailedRefreshKeepsCache ==
    [][ (ChainStep /\ last'.origin = "refresh" /\ last'.res = "failed")
        => \A s \in Screens :
              /\ \A k \in PayloadKeys(s) \cup {TsKey(s)} : storage'[k] = storage[k]
              /\ Valid(s) => Valid(s)' /\ Cached(s)' = Cached(s)
      ]_vars

\* A refresh has just failed over a Valid entry.
C8_Witness ==
    /\ last.op = "step" /\ last.origin = "refresh" /\ last.res = "failed"
    /\ Valid(last.s)

\* A payload is on screen.
Shown(s) ==
    CASE s = "orders" -> ui[s].data # <<>>
      [] s = "finance" -> ui[s].data.transactions # <<>> /\ ui[s].data.balance # <<>>
      [] s = "modal" -> ui[s].data.dealer # <<>>

\* C9: when a fetch fails on the Finance or Orders screen while a payload is
\* displayed, the displayed payload is unchanged and an error message is set.
C9_FailedLoadKeepsPayload ==
    [][ ( /\ ChainStep
          /\ last'.res = "failed"
          /\ last'.s \in {"finance", "orders"}
          /\ tasks[last'.i].attached
          /\ Shown(last'.s) )
        => /\ ui'[last'.s].data = ui[last'.s].data
           /\ ui'[last'.s].error # OK
      ]_vars

\* C10: a failing or unparsable storage read during a load sets no error and
\* leads to the remote fetch; a failing storage write after a successful fetch
\* leaves the payload displayed and sets no error; an error appears only when
\* a fetch fails.
C10_StorageFailuresStayInside ==
    [][ /\ (ChainStep /\ events' # events)
           => LET t == tasks[last'.i]
                  s == last'.s
              IN  /\ t.pc \in {"readTs", "readData"} =>
                        /\ ui'[s].error \in {ui[s].error, OK}
                        /\ (t.screen = "finance" => t.live) => GoesOnAt({"dealer", "fin"})
                  /\ t.pc = "save" =>
                        /\ ui'[s].data = ui[s].data
                        /\ ui'[s].error \in {ui[s].error, OK}
        /\ \A s \in Screens :
              (ui'[s].error # OK /\ ui'[s].error # ui[s].error)
              => last'.res = "failed" /\ last'.s = s
      ]_vars

\* The Orders screen's initial load fetched, its cache write failed, and the
\* list is displayed with no error.
C10_Witness ==
    /\ last.op = "step" /\ last.origin = "effect" /\ last.res = "done"
    /\ last.s = "orders"
    /\ storage["orders_cache"] = NoItem
    /\ ui["orders"].data # <<>>
    /\ ui["orders"].error = OK

(***************************************************************************)
(* Direct calls of the price chart, product and dealer fetchers            *)
(***************************************************************************)
\* The message of the store when .single() does not find exactly one row.
NoRowsFault == "JSON object requested, multiple (or no) rows returned"

\* The rows a price_chart_items table is made of: Widget on either chart.
ItemShapes ==
    { [chart |-> c, product |-> "p1", price |-> 800 + 100 * e, effective |-> e, expiry |-> x] :
        c \in {"PC1", "PC2"}, e \in {1, 2}, x \in {<<>>, <<3>>} }

\* The price_chart_items tables of up to MaxItems rows.
ItemTables ==
    UNION { { [i \in 1..n |-> [ id |-> i, chart |-> f[i].chart, product |-> f[i].product,
                                price |-> f[i].price, effective |-> f[i].effective,
                                expiry |-> f[i].expiry ]] :
              f \in [1..n -> ItemShapes] } : n \in 0..MaxItems }

\* A select of fetchPriceChartItems without its expiry_date filter.
ActiveItemsAnyExpiry(chartId) ==
    SortDesc({ it \in Range(items) : it.chart = chartId }, ItemKey)

\* The rows the price_chart_items select of fetchPriceChartItems returns.
ActiveItems(chartId) ==
    SortDesc({ it \in Range(items) : it.chart = chartId /\ it.expiry = <<>> }, ItemKey)

\* A row of that select as a PriceChartItem.
PriceChartItem(it) ==
    [ id |-> it.id,
      product |-> [ id |-> ProductOf(it).id, name |-> ProductOf(it).name,
                    category |-> ProductOf(it).category, unit |-> ProductOf(it).unit ],
      price_per_unit |-> it.price, effective_date |-> it.effective,
      expiry_date |-> it.expiry ]

\* A fetchPriceChartItems that hands an empty result set on as an empty list.
FetchPriceChartItemsResultEmpty(chartId, fault) ==
    IF fault
       THEN [ok |-> FALSE, msg |-> <<"Failed to fetch price chart items: ", StoreFault>>,
             data |-> <<>>]
       ELSE [ok |-> TRUE, msg |-> OK,
             data |-> [i \in 1..Len(ActiveItems(chartId)) |->
                          PriceChartItem(ActiveItems(chartId)[i])]]

\* fetchPriceChartItems once its select has settled.
FetchPriceChartItemsResult(chartId, fault) ==
    IF fault
       THEN [ok |-> FALSE, msg |-> <<"Failed to fetch price chart items: ", StoreFault>>,
             data |-> <<>>]
    ELSE IF ActiveItems(chartId) = <<>>
       THEN [ok |-> FALSE, msg |-> <<"No active price chart items found">>, data |-> <<>>]
    ELSE [ok |-> TRUE, msg |-> OK,
          data |-> [i \in 1..Len(ActiveItems(chartId)) |->
                       PriceChartItem(ActiveItems(chartId)[i])]]

\* fetchPriceChartByCode once its .single() select has settled.
FetchPriceChartByCodeResult(code, fault) ==
    IF fault
       THEN [ok |-> FALSE, msg |-> <<"Failed to fetch price chart: ", StoreFault>>,
             row |-> <<>>]
    ELSE IF Cardinality(ChartById(code)) # 1
       THEN [ok |-> FALSE, msg |-> <<"Failed to fetch price chart: ", NoRowsFault>>,
             row |-> <<>>]
    ELSE [ok |-> TRUE, msg |-> OK, row |-> <<CHOOSE c \in ChartById(code) : TRUE>>]

\* fetchPriceChartProducts of the products API once its select has settled.
ProductsApiResult(chartId, fault) ==
    IF fault
       THEN [ok |-> FALSE, msg |-> <<"Failed to fetch products: ", StoreFault>>, data |-> <<>>]
       ELSE [ok |-> TRUE, msg |-> OK, data |-> ChartProducts(chartId)]

\* The Product that fetchPriceChartProducts of the orders API makes of an item.
OrdersApiProduct(pi) ==
    [ id |-> pi.product.id, name |-> pi.product.name, category |-> pi.product.category,
      unit |-> pi.product.unit, price_per_unit |-> pi.price_per_unit,
      effective_date |-> pi.effective_date, expiry_date |-> pi.expiry_date ]

CallFns ==
    { "fetchPriceChartItems", "products.fetchPriceChartProducts",
      "orders.fetchPriceChartProducts", "fetchDealerByUserId", "fetchDealerDetails" }

CallArgs(fn) ==
    CASE fn = "fetchDealerByUserId" -> {"", "u1", "u2", "u3", "u9"}
      [] fn = "fetchDealerDetails" -> {"", "u1", "u2", "u5", "u9"}
      [] OTHER -> {"", "PC1", "PC2", "PC9"}

\* The message of the guard on an empty argument.
RequiredMsg(fn) ==
    CASE fn = "fetchPriceChartItems" -> <<"Price chart ID is required">>
      [] fn = "products.fetchPriceChartProducts" -> <<"Price chart ID is required">>
      [] fn = "orders.fetchPriceChartProducts" -> <<"Price chart code is required">>
      [] fn = "fetchDealerByUserId" -> <<"User ID is required">>
      [] fn = "fetchDealerDetails" -> <<"User ID is required">>

\* The table the fetcher queries first.
FirstTable(fn) ==
    CASE fn = "fetchPriceChartItems" -> "price_chart_items"
      [] fn = "products.fetchPriceChartProducts" -> "price_chart_items"
      [] fn = "orders.fetchPriceChartProducts" -> "price_charts"
      [] fn = "fetchDealerByUserId" -> "dealers"
      [] fn = "fetchDealerDetails" -> "dealers"

CallThrow(c, msg) == [c EXCEPT !.pc = "settled", !.out = "error", !.msg = msg]

CallGive(c, data) == [c EXCEPT !.pc = "settled", !.out = "ok", !.data = data]

\* A caller invokes fetcher fn with arg: the guard, then the first select.
CallStart(fn, arg) ==
    /\ call.pc = "idle"
    /\ call' = IF Falsy(arg)
                  THEN CallThrow([CallIdle EXCEPT !.fn = fn, !.arg = arg], RequiredMsg(fn))
                  ELSE [CallIdle EXCEPT !.fn = fn, !.arg = arg, !.pc = "query",
                                        !.queries = <<FirstTable(fn)>>]
    /\ UNCHANGED <<orders, co, now, ledger, apiFin, apiLog, storage,
                   items, user, focus, nav, events, last, ui, tasks, timers>>

\* The call after the select in flight has settled, with a store fault or without.
CallAfter(c, fault) ==
    CASE c.fn = "fetchPriceChartItems" ->
            LET r == FetchPriceChartItemsResult(c.arg, fault)
            IN  IF r.ok THEN CallGive(c, r.data) ELSE CallThrow(c, r.msg)
      [] c.fn = "products.fetchPriceChartProducts" ->
            LET r == ProductsApiResult(c.arg, fault)
            IN  IF r.ok THEN CallGive(c, r.data) ELSE CallThrow(c, r.msg)
      [] c.fn = "fetchDealerByUserId" ->
            LET r == FetchDealerByUserIdResult(c.arg, fault)
            IN  IF r.ok THEN CallGive(c, r.row) ELSE CallThrow(c, r.msg)
      [] c.fn = "fetchDealerDetails" /\ Len(c.queries) = 1 ->
            LET r == FetchDealerByUserIdResult(c.arg, fault)
            IN  IF ~r.ok THEN CallThrow(c, r.msg)
                ELSE IF Falsy(r.row[1].price_chart_code)
                   THEN CallGive(c, DetailsOf(r.row[1], <<>>))
                ELSE [c EXCEPT !.data = r.row[1],
                               !.queries = Append(@, "price_charts")]
      [] c.fn = "fetchDealerDetails" /\ Len(c.queries) = 2 ->
            LET r == FetchPriceChartByCodeResult(c.data.price_chart_code, fault)
            IN  CallGive(c, DetailsOf(c.data, r.row))
      [] c.fn = "orders.fetchPriceChartProducts" /\ c.chart = <<>> ->
            LET r == FetchPriceChartByCodeResult(c.arg, fault)
            IN  IF r.ok
                   THEN [c EXCEPT !.chart = r.row,
                                  !.queries = Append(@, "price_chart_items")]
                   ELSE CallThrow(c, r.msg)
      [] c.fn = "orders.fetchPriceChartProducts" /\ c.chart # <<>> ->
            LET r == FetchPriceChartItemsResult(c.chart[1].id, fault)
            IN  IF r.ok
                   THEN CallGive(c, [i \in 1..Len(r.data) |-> OrdersApiProduct(r.data[i])])
                   ELSE CallThrow(c, r.msg)

CallResp(fault) ==
    /\ call.pc = "query"
    /\ call' = [CallAfter(call, fault) EXCEPT !.faulted = @ \/ fault]
    /\ UNCHANGED <<orders, co, now, ledger, apiFin, apiLog, storage,
                   items, user, focus, nav, events, last, ui, tasks, timers>>

\* The caller has the result and may call again.
CallReturn ==
    /\ call.pc = "settled"
    /\ call' = CallIdle
    /\ UNCHANGED <<orders, co, now, ledger, apiFin, apiLog, storage,
                   items, user, focus, nav, events, last, ui, tasks, timers>>

InitFetchers ==
    /\ orders = <<>>
    /\ co = CoIdle
    /\ now = 0
    /\ ledger = 0
    /\ apiFin = [call |-> FdfIdle, startedAt |-> 0]
    /\ apiLog = <<>>
    /\ storage = [k \in StorageKeys |-> NoItem]
    /\ items \in ItemTables
    /\ user = ""
    /\ focus = "none"
    /\ ui = UiInit
    /\ tasks = <<>>
    /\ call = CallIdle
    /\ nav = NavIdle
    /\ events = 0
    /\ last = NoStep
    /\ timers = {}

NextFetchers ==
    \/ \E fn \in CallFns : \E arg \in CallArgs(fn) : CallStart(fn, arg)
    \/ \E fault \in BOOLEAN : CallResp(fault)
    \/ CallReturn

SpecFetchers == InitFetchers /\ [][NextFetchers]_vars

(***************************************************************************)
(* Claims C11-C14: the fetchers' results                                   *)
(***************************************************************************)
\* The store answered the settled call of fn without a fault.
Answered(fn) ==
    /\ call.pc = "settled"
    /\ call.fn = fn
    /\ ~Falsy(call.arg)
    /\ ~call.faulted

\* The rows of the items table that are on the chart and have no expiry date.
InForce(chartId) == { it \in Range(items) : it.chart = chartId /\ it.expiry = <<>> }

ChartExists(chartId) == \E c \in ChartRows : c.id = chartId

\* C11: fetchPriceChartItems on a chart without an item of null expiry date
\* fails with 'No active price chart items found'; it never returns an empty
\* list.
C11_NoActiveItemsIsAnError ==
    /\ Answered("fetchPriceChartItems") /\ InForce(call.arg) = {}
          => call.out = "error" /\ call.msg = <<"No active price chart items found">>
    /\ call.pc = "settled" /\ call.fn = "fetchPriceChartItems" /\ call.out = "ok"
          => call.data # <<>>

C11_Witness ==
    /\ Answered("fetchPriceChartItems")
    /\ call.arg = "PC2"
    /\ \E it \in Range(items) : it.chart = "PC2" /\ it.expiry # <<>>
    /\ InForce("PC2") = {}
    /\ call.out = "error"
    /\ call.msg = <<"No active price chart items found">>

\* C12: fetchPriceChartProducts of the products API and of the orders API
\* return the empty list, and do not fail, when the chart exists and has no
\* item of null expiry date.
C12_NoActiveItemsIsAnEmptyList ==
    \A fn \in {"products.fetchPriceChartProducts", "orders.fetchPriceChartProducts"} :
        Answered(fn) /\ ChartExists(call.arg) /\ InForce(call.arg) = {}
            => call.out = "ok" /\ call.data = <<>>

\* The products API alone does so.
C12_ProductsApiEmptyList ==
    Answered("products.fetchPriceChartProducts") /\ InForce(call.arg) = {}
        => call.out = "ok" /\ call.data = <<>>

\* C13: fetchPriceChartItems(chartId) returns exactly the items of that chart
\* whose expiry date is null, each once, ordered by effective date descending.
C13_ItemsInForceNewestFirst ==
    call.pc = "settled" /\ call.fn = "fetchPriceChartItems" /\ call.out = "ok"
        => /\ { call.data[i].id : i \in 1..Len(call.data) }
                  = { it.id : it \in InForce(call.arg) }
           /\ Len(call.data) = Cardinality(InForce(call.arg))
           /\ \A i \in 1..Len(call.data) :
                 \E it \in InForce(call.arg) :
                    /\ call.data[i].id = it.id
                    /\ call.data[i].price_per_unit = it.price
                    /\ call.data[i].effective_date = it.effective
                    /\ call.data[i].expiry_date = <<>>
                    /\ call.data[i].product.id = it.product
           /\ \A i, j \in 1..Len(call.data) :
                 i < j => call.data[i].effective_date >= call.data[j].effective_date

\* Widget active at 10.00 and expired at 9.00 on PC1, and an item of PC2:
\* the result is Widget at 10.00 alone.
C13_Witness ==
    /\ Answered("fetchPriceChartItems")
    /\ call.arg = "PC1"
    /\ \E it \in Range(items) : it.chart = "PC1" /\ it.price = 900 /\ it.expiry # <<>>
    /\ \E it \in Range(items) : it.chart = "PC2" /\ it.expiry = <<>>
    /\ Cardinality(InForce("PC1")) = 1
    /\ call.out = "ok"
    /\ Len(call.data) = 1
    /\ call.data[1].product.name = "Widget"
    /\ call.data[1].price_per_unit = 1000

\* C14: fetchDealerByUserId fails with 'User ID is required' before any query
\* on an empty userId, with a not-found error when no row matches, with the
\* store's own error on a store fault, and returns a dealer only when exactly
\* one row matches.
C14_DealerByUserOutcomes ==
    call.pc = "settled" /\ call.fn = "fetchDealerByUserId"
        => /\ Falsy(call.arg)
                 => /\ call.out = "error"
                    /\ call.msg = <<"User ID is required">>
                    /\ call.queries = <<>>
           /\ call.faulted => call.out = "error" /\ call.msg = <<StoreFault>>
           /\ Answered("fetchDealerByUserId")
                 /\ { r \in DealerRows : r.user_id = call.arg } = {}
                 => call.out = "error" /\ call.msg = <<"No dealer found for this user">>
           /\ call.out = "ok"
                 => /\ Cardinality({ r \in DealerRows : r.user_id = call.arg }) = 1
                    /\ \E r \in DealerRows : r.user_id = call.arg /\ call.data = <<r>>
                    /\ call.queries = <<"dealers">>

C14_Witness ==
    /\ Answered("fetchDealerByUserId")
    /\ call.arg = "u9"
    /\ call.queries = <<"dealers">>
    /\ call.out = "error"
    /\ call.msg = <<"No dealer found for this user">>

(***************************************************************************)
(* Claim C15: fetchDealerFinance and its sub-fetches                       *)
(***************************************************************************)
\* C15: when the transactions or the balance sub-fetch settles with an error,
\* fetchDealerFinance fails with that store error as it is and returns no
\* partial result; the sub-fetches are issued only after the dealer lookup
\* has succeeded.
C15_SubFetchErrorFailsWholeCall ==
    /\ \A i \in 1..Len(apiLog) :
          LET e == apiLog[i]
          IN  /\ e.tx = "err" \/ e.bal = "err"
                    => /\ e.out = "error"
                       /\ e.data = <<>>
                       /\ e.msg \in {<<TxFault>>, <<BalFault>>}
                       /\ e.msg = <<TxFault>> => e.tx = "err"
                       /\ e.msg = <<BalFault>> => e.bal = "err"
              /\ e.out = "ok"
                    => /\ e.tx = "ok" /\ e.bal = "ok"
                       /\ e.data = <<[transactions |-> e.data[1].transactions,
                                      balance |-> e.data[1].balance]>>
                       /\ e.data[1].balance # <<>>
              /\ e.tx # "none" \/ e.bal # "none" \/ e.queries > 1
                    => /\ \E r \in DealerRows : r.user_id = e.user /\ r.id = e.dealer
                       /\ e.queries = 3
    /\ apiFin.call.tx # "none" \/ apiFin.call.bal # "none" \/ apiFin.call.queries > 1
          => \E r \in DealerRows : r.user_id = apiFin.call.user /\ r.id = apiFin.call.dealer

\* The balance sub-fetch alone failed: the call failed with its error.
C15_Witness ==
    \E i \in 1..Len(apiLog) :
        /\ apiLog[i].tx = "ok"
        /\ apiLog[i].bal = "err"
        /\ apiLog[i].out = "error"
        /\ apiLog[i].msg = <<BalFault>>
        /\ apiLog[i].data = <<>>

(***************************************************************************)
(* Claims C16-C17: createOrder's outcome and its write                     *)
(***************************************************************************)
\* A remote step of createOrder was reached.
ReachedStore == co.calls # <<>>

\* The messages a failing store request returns.
StoreMessages == {StoreFault, NoRowsFault}

\* C16: createOrder returns the created order on success; when the dealers
\* select or the orders insert fails, the error it throws contains the
\* message the store returned.
C16_ErrorsCarryStoreMessage ==
    co.pc = "settled"
        => /\ co.outcome = "ok" => co.created = <<orders[Len(orders)]>>
           /\ co.outcome = "error" /\ ReachedStore
                 => \E i \in 1..Len(co.msg) : co.msg[i] \in StoreMessages

OrderRowFields ==
    { "dealer_id", "salesman_id", "product_id", "product_name", "unit", "quantity",
      "price_chart_id", "price_per_unit", "total_price", "status", "notes" }

\* A step keeps every stored order; what it adds is the one row of a
\* createOrder whose insert succeeded.
OrdersOnlyGrowByInsert ==
    /\ Len(orders') >= Len(orders)
    /\ \A i \in 1..Len(orders) : orders'[i] = orders[i]
    /\ orders' # orders
          => /\ Len(orders') = Len(orders) + 1
             /\ co.pc = "insert" /\ co'.pc = "settled" /\ co'.outcome = "ok"
             /\ co'.created = <<orders'[Len(orders')]>>
             /\ orders'[Len(orders')].row.status = "processing"
             /\ DOMAIN orders'[Len(orders')].row = OrderRowFields
             /\ orders'[Len(orders')].id = Len(orders) + 1
             /\ orders'[Len(orders')].created_at = now
    /\ co.pc # "settled" /\ co'.pc = "settled" /\ co'.outcome = "ok"
          => Len(orders') = Len(orders) + 1

\* C17: no client operation changes an order that is in the store; the only
\* write to the orders table is one insert per successful createOrder, of a
\* row with status 'processing' and with neither id nor created_at, which the
\* store assigns.
C17_ClientOnlyInsertsOrders == [][OrdersOnlyGrowByInsert]_vars

\* A second order was created and the first one is as it was inserted.
C17_Witness ==
    /\ Len(orders) = 2
    /\ co.pc = "settled"
    /\ co.outcome = "ok"
    /\ co.created = <<orders[2]>>
    /\ orders[1].id = 1
    /\ orders[1].row.status = "processing"

\* Loads and refreshes of the screens leave the orders table alone: it changes
\* by the backend's status transition only.
ScreensLeaveOrders == [][orders' # orders => last'.op = "remote"]_vars

(***************************************************************************)
(* Claims C18-C20: cache writes, overlapping refreshes, late responses     *)
(***************************************************************************)
\* The storage keys of the cache entry of screen s.
EntryKeys(s) == PayloadKeys(s) \cup {TsKey(s)}

\* The chain in slot i takes this step.
StepOf(i) == i \in 1..Len(tasks) /\ last'.op = "step" /\ last'.i = i /\ tasks' # tasks

\* Every setItem of the saveToCache call of chain i has taken effect.
WroteAll(i) ==
    \A j \in 1..Len(tasks[i].texts) : storage'[tasks[i].texts[j][1]] = tasks[i].texts[j][2]

\* C18: a cache entry is never partially updated: whenever a key of a screen's
\* entry changes, all keys of the entry then hold what one saveToCache call
\* wrote, also when a storage write fails or two refreshes overlap.
C18_EntryWrittenWhole ==
    [][\A s \in Screens :
          (\E k \in EntryKeys(s) : storage'[k] # storage[k])
              => \E i \in 1..Len(tasks) :
                    /\ tasks[i].pc = "save"
                    /\ tasks[i].screen = s
                    /\ WroteAll(i)]_vars

\* The payload that saveToCache call of chain t stores for the Finance screen.
FinanceText(data) ==
    JsonStringify([transactions |-> data.transactions, balance |-> data.balance[1]])

\* The response of chain i's fetchDealerFinance arrives with data.
FinanceResponse(i) ==
    /\ StepOf(i)
    /\ tasks[i].screen = "finance"
    /\ tasks[i].pc = "fin"
    /\ last'.res = "going"
    /\ tasks'[i].pc = "save"

\* The saveToCache call of chain i settles with every write done.
FinanceSaved(i) ==
    /\ StepOf(i)
    /\ tasks[i].screen = "finance"
    /\ tasks[i].pc = "save"
    /\ WroteAll(i)

C20_LateResponseDiscarded ==
    [][\A i \in 1..Len(tasks) :
          StepOf(i) /\ tasks[i].screen = "finance" /\ ~tasks[i].live
              => ui'["finance"] = ui["finance"]]_vars

(***************************************************************************)
(* Claim C21: one entry per product                                        *)
(***************************************************************************)
\* C21: the list fetchPriceChartProducts returns holds at most one entry per
\* product, and when several items of a product have no expiry date that
\* entry is the one with the latest effective date.
C21_OneEntryPerProduct ==
    \A fn \in {"products.fetchPriceChartProducts", "orders.fetchPriceChartProducts"} :
        call.pc = "settled" /\ call.fn = fn /\ call.out = "ok"
            => /\ \A i, j \in 1..Len(call.data) :
                     call.data[i].id = call.data[j].id => i = j
               /\ \A i \in 1..Len(call.data) :
                     \A it \in InForce(call.arg) :
                        it.product = call.data[i].id
                            => it.effective <= call.data[i].effective_date

(***************************************************************************)
(* Claim C22: the dealer's price chart                                     *)
(***************************************************************************)
\* The dealer row of user u, when there is exactly one.
DealerOfUser(u) == CHOOSE r \in DealerRows : r.user_id = u

\* C22: for a dealer with a price chart code, fetchDealerDetails answered by
\* the store without a fault returns the chart whose price_chart_code equals
\* the dealer's code, also when that chart's id differs from its code.
C22_ChartMatchesDealerCode ==
    ( /\ Answered("fetchDealerDetails")
      /\ call.out = "ok"
      /\ ~Falsy(DealerOfUser(call.arg).price_chart_code) )
    => /\ call.data.price_chart # <<>>
       /\ call.data.price_chart[1].price_chart_code
              = DealerOfUser(call.arg).price_chart_code

(***************************************************************************)
(* Claim C23: which error surfaces when both sub-fetches fail              *)
(***************************************************************************)
\* C23: when both the transactions and the balance sub-fetch of
\* fetchDealerFinance fail, the error of the call is that of the sub-fetch
\* that failed first in time, in every interleaving of the two responses.
C23_FirstFailureSurfaces ==
    \A k \in 1..Len(apiLog) :
        (apiLog[k].tx = "err" /\ apiLog[k].bal = "err")
        => apiLog[k].msg = IF apiLog[k].first = "tx" THEN <<TxFault>> ELSE <<BalFault>>

(***************************************************************************)
(* Claim C29: the Finance screen's refresh timer                           *)
(***************************************************************************)
\* An initial load or interval callback whose effect was cleaned up starts no
\* remote fetch (both test the mounted flag).
NoFetchAfterCleanup ==
    [][ /\ ( /\ ChainStep /\ last'.s = "finance" /\ last'.origin = "effect"
             /\ ~tasks[last'.i].live
             /\ tasks[last'.i].pc \in {"readTs", "readData"} )
           => last'.res = "done" \/ GoesOnAt({"readData"})
        /\ (last'.op = "interval" /\ last'.origin = "")
           => Len(tasks') = Len(tasks) /\ last'.res = "done"
      ]_vars

\* C29: in every interleaving of mount, initial load and unmount of the
\* Finance screen, once the effect's cleanup has run and the initial load has
\* settled, no interval timer created by that effect remains scheduled.
C29_NoTimerLeftBehind ==
    \A tm \in timers : tm.live

(***************************************************************************)
(* Claim C24: whose payload a screen serves from the cache                 *)
(***************************************************************************)
\* Screen s displays a payload of dealer d.
ShowsDataOf(s, d) ==
    CASE s = "orders" ->
            \E k \in 1..Len(ui[s].data) : ui[s].data[k].row.dealer_id = d
      [] s = "finance" ->
            ui[s].data.balance # <<>> /\ ui[s].data.balance[1].dealer_id = d
      [] s = "modal" ->
            ui[s].data.dealer # <<>> /\ ui[s].data.dealer[1].id = d

\* C24: when user A (u1, dealer d1) has signed out and a different user B
\* (u2) signs in within the validity window, a screen of B that loads its
\* stored entry never displays a payload that was fetched and cached for A.
C24_CacheServedToItsUserOnly ==
    [][ \A s \in Screens :
          ( /\ ChainStep
            /\ last'.s = s
            /\ tasks[last'.i].pc = "readData"
            /\ tasks[last'.i].user = "u2"
            /\ tasks[last'.i].attached
            /\ events' = events
            /\ Stocked(s) )
          => ~ShowsDataOf(s, "d1")'
      ]_vars

(***************************************************************************)
(* The NewOrderModal in front of a store that fails on every call          *)
(***************************************************************************)
\* The dealers select of fetchDealerByUserId fails, as every store call does.
StoreDownResp(i) ==
    /\ i \in 1..Len(tasks)
    /\ tasks[i].pc = "dealer"
    /\ Apply(i, FetchFailed(tasks[i], ui, FetchDealerByUserIdResult(tasks[i].user, TRUE).msg))
    /\ UNCHANGED events
    /\ UNCHANGED <<orders, co, now, ledger, apiFin, apiLog, items, user, focus, call, nav>>

\* The modal has just become visible for a signed-in dealer; the stored entry,
\* if there is one, is five minutes old.
InitModalDown ==
    /\ orders = OrdersInit
    /\ co = CoIdle
    /\ ledger = 1
    /\ apiFin = [call |-> FdfIdle, startedAt |-> 0]
    /\ apiLog = <<>>
    /\ items = ItemsInit
    /\ user = "u1"
    /\ focus = "modal"
    /\ \/ storage = StorageAfter(<<>>) /\ now \in {0, CACHE_DURATION}
       \/ storage = StorageAfter(EarlierSession("modal")) /\ now = CACHE_DURATION
    /\ ui = [UiInit EXCEPT !["modal"].mounted = TRUE]
    /\ tasks = RunEffect("modal", "u1", ui["modal"])
    /\ call = CallIdle
    /\ nav = NavIdle
    /\ events = 0
    /\ last = Step("open", 0, "modal", "", "")
    /\ timers = {}

NextModalDown ==
    \/ OpenModal
    \/ CloseModal
    \/ Refresh("modal")
    \/ Retry
    \/ \E i \in 1..MaxTasks, o \in ReadOutcomes : ReadTs(i, o)
    \/ \E i \in 1..MaxTasks : StoreDownResp(i)

\* A storage read and a store call settle sooner or later.
SpecModalDown ==
    /\ InitModalDown
    /\ [][NextModalDown]_vars
    /\ WF_vars(\E i \in 1..MaxTasks : ReadTs(i, "ok"))
    /\ WF_vars(\E i \in 1..MaxTasks : StoreDownResp(i))

(***************************************************************************)
(* Claims C27, C28: the modal's retry counter and its automatic fetches    *)
(***************************************************************************)
\* C27: retryCount stays within 0..MAX_RETRIES in every reachable state, under
\* any interleaving of failing fetchFreshData invocations (initial load,
\* effect re-run, pull-to-refresh, Retry).
C27_RetryCountInBounds ==
    ui["modal"].retryCount \in 0..MAX_RETRIES

\* While the user has done nothing, the automatic fetch in flight is attempt
\* number retryCount + 1 of at most MAX_RETRIES + 1, and once none is in
\* flight the counter is at MAX_RETRIES and the modal shows the error.
AutoAttemptInBounds ==
    /\ Len(tasks) <= 1
    /\ ui["modal"].retryCount <= MAX_RETRIES
    /\ \A i \in 1..Len(tasks) :
          tasks[i].origin = "effect" /\ tasks[i].retry = ui["modal"].retryCount
    /\ tasks = <<>> =>
          /\ ui["modal"].retryCount = MAX_RETRIES
          /\ ~ui["modal"].loading
          /\ ui["modal"].error # OK

\* No fetch is in flight; a visible modal of a signed-in user shows an error
\* and no loading state.
AtRest ==
    /\ tasks = <<>>
    /\ (ui["modal"].mounted /\ ~Falsy(user))
       => ~ui["modal"].loading /\ ui["modal"].error # OK

CalculateTotal(f) ==
    IF f.quantity <= 0 THEN 0 ELSE f.quantity * f.product.price_per_unit

\* validateOrder of the modal.
ModalValidate(v) ==
    IF v.data.dealer = <<>> THEN <<"Dealer details not found">>
    ELSE IF v.form = <<>> THEN <<"Please select a product">>
    ELSE IF v.form[1].quantity <= 0 THEN <<"Please enter a valid quantity">>
    ELSE OK

\* The orderData handleSubmit builds from the dealer details and the form.
OrderData(details, f) ==
    [ dealer_id |-> details.id, product_id |-> f.product.id,
      product_name |-> f.product.name, unit |-> f.product.unit,
      quantity |-> f.quantity,
      price_chart_id |-> IF details.price_chart = <<>> THEN NullStr
                                                       ELSE details.price_chart[1].id,
      price_per_unit |-> f.product.price_per_unit,
      total_price |-> CalculateTotal(f), notes |-> "" ]

\* What createOrder throws before its first await.
CreateOrderGuard(c) ==
    IF ValidateOrder(c) # OK THEN ValidateOrder(c)
    ELSE IF MissingRequired(c)
       THEN <<"Missing required fields. Please ensure all required data is provided.">>
    ELSE OK

\* The user picks the first product of the list and enters a quantity.
FillForm(q) ==
    /\ focus = "modal"
    /\ ui["modal"].mounted
    /\ ui["modal"].data.products # <<>>
    /\ ui' = [ui EXCEPT !["modal"].form =
                 <<[product |-> ui["modal"].data.products[1], quantity |-> q]>>]
    /\ Gesture("fill", "modal")
    /\ UNCHANGED <<orders, co, now, ledger, apiFin, apiLog, storage, items, user, focus, call, nav,
                   tasks, timers>>

\* The Place Order button (disabled while loading): handleSubmit up to the
\* await of createOrder.
PlaceOrder ==
    /\ focus = "modal"
    /\ ui["modal"].mounted
    /\ ~ui["modal"].loading
    /\ Len(tasks) < MaxTasks
    /\ LET v == ui["modal"]
           msg == IF ModalValidate(v) # OK THEN ModalValidate(v)
                  ELSE CreateOrderGuard(OrderData(v.data.dealer[1], v.form[1]))
       IN  IF msg # OK
              THEN /\ ui' = [ui EXCEPT !["modal"].error = msg, !["modal"].loading = FALSE]
                   /\ tasks' = tasks
                   /\ last' = Step("submit", 0, "modal", "submit", "failed")
              ELSE /\ ui' = [ui EXCEPT !["modal"].error = OK, !["modal"].loading = TRUE]
                   /\ tasks' = Append(tasks,
                         [NewTask("modal", "submit", user, v.retryCount, "lookup")
                             EXCEPT !.f = OrderData(v.data.dealer[1], v.form[1])])
                   /\ last' = Step("submit", 0, "modal", "submit", "going")
    /\ Event
    /\ UNCHANGED <<orders, co, now, ledger, apiFin, apiLog, storage, items, user, focus, call, nav,
                   timers>>

\* The catch and finally blocks of handleSubmit.
SubmitFailed(t, msg) ==
    [ tag |-> "failed", store |-> storage,
      ui |-> Upd(t, ui, [ui["modal"] EXCEPT !.error = msg, !.loading = FALSE]),
      task |-> <<>>, timers |-> timers ]

\* createOrder: the dealers select for the salesman settles.
SubmitDealerResp(i, fault) ==
    /\ i \in 1..Len(tasks)
    /\ tasks[i].origin = "submit"
    /\ tasks[i].pc = "lookup"
    /\ LET t == tasks[i]
       IN  Apply(i, IF fault \/ DealerById(t.f.dealer_id) = {}
                       THEN SubmitFailed(t, <<"Failed to fetch dealer details">>)
                       ELSE Going([t EXCEPT !.pc = "insert",
                                            !.dealer = <<CHOOSE r \in DealerById(t.f.dealer_id) : TRUE>>],
                                  ui))
    /\ Fault(fault)
    /\ UNCHANGED <<orders, co, now, ledger, apiFin, apiLog, items, user, focus, call, nav>>

\* onSuccess of the host: the Orders screen calls fetchOrders
\* (handleOrderSuccess); the bottom navigation pushes the Orders route, whose
\* screen mounts and runs its initial-load effect.
OnSuccess(u0) ==
    IF u0["orders"].mounted
       THEN StartFetch(NewTask("orders", "success", user, 0, "start"), u0)
       ELSE LET u1 == [u0 EXCEPT !["orders"] = [UiInit["orders"] EXCEPT !.mounted = TRUE]]
            IN  [ tag |-> "going", store |-> storage, ui |-> u1,
                  task |-> RunEffect("orders", user, u1["orders"]), timers |-> timers ]

\* createOrder: the orders insert settles; on success onSuccess, resetForm,
\* onClose and setLoading(false) follow.
SubmitInsertResp(i, fault) ==
    /\ i \in 1..Len(tasks)
    /\ tasks[i].origin = "submit"
    /\ tasks[i].pc = "insert"
    /\ LET t == tasks[i]
       IN  IF fault
              THEN /\ Apply(i, SubmitFailed(t, <<"Failed to create order: ", StoreFault>>))
                   /\ UNCHANGED orders
              ELSE LET r == OnSuccess(ui)
                       v == r.ui["modal"]
                   IN  /\ Len(orders) <= MaxOrders
                       /\ orders' = StoreInsert(orders, InsertPayload(t.f, t.dealer[1].salesman_id))
                       /\ ui' = Upd(t, r.ui, [v EXCEPT !.form = <<>>, !.error = OK,
                                                       !.mounted = FALSE, !.loading = FALSE])
                       /\ tasks' = SubSeq(tasks, 1, i - 1) \o SubSeq(tasks, i + 1, Len(tasks))
                                   \o r.task
                       /\ last' = Step("step", i, "modal", "submit", "done")
                       /\ UNCHANGED <<storage, timers>>
    /\ Fault(fault)
    /\ UNCHANGED <<co, now, ledger, apiFin, apiLog, items, user, focus, call, nav>>

\* The modal is open with the dealer's data loaded, opened either from the
\* Orders screen (then mounted, showing its list) or from the bottom
\* navigation on another screen.
InitSubmit ==
    /\ orders = OrdersInit
    /\ co = CoIdle
    /\ now \in {0, TickMs}
    /\ ledger = 1
    /\ apiFin = [call |-> FdfIdle, startedAt |-> 0]
    /\ apiLog = <<>>
    /\ items = ItemsInit
    /\ user = "u1"
    /\ focus = "modal"
    /\ storage \in { StorageAfter(<<>>), StorageAfter(EarlierSession("orders")) }
    /\ \E host \in BOOLEAN :
          ui = [UiInit EXCEPT
                  !["modal"].mounted = TRUE,
                  !["modal"].data =
                      [dealer |-> <<DetailsOf(CHOOSE r \in DealerByUser("u1") : TRUE,
                                              <<CHOOSE c \in ChartById("PC1") : TRUE>>)>>,
                       products |-> ChartProducts("PC1")],
                  !["orders"] = IF host
                                   THEN [@ EXCEPT !.mounted = TRUE, !.loading = FALSE,
                                                 !.data = DealerOrders("d1")]
                                   ELSE @]
    /\ tasks = <<>>
    /\ call = CallIdle
    /\ nav = NavIdle
    /\ events = 0
    /\ last = Step("open", 0, "modal", "", "")
    /\ timers = {}

NextSubmit ==
    \/ \E q \in {0, 5} : FillForm(q)
    \/ PlaceOrder
    \/ Refresh("modal")
    \/ Retry
    \/ OpenModal
    \/ \E i \in 1..MaxTasks, fault \in BOOLEAN : SubmitDealerResp(i, fault)
    \/ \E i \in 1..MaxTasks, fault \in BOOLEAN : SubmitInsertResp(i, fault)
    \/ \E i \in 1..MaxTasks, o \in ReadOutcomes : ReadTs(i, o)
    \/ \E i \in 1..MaxTasks, o1, o2 \in ReadOutcomes : ReadData(i, o1, o2)
    \/ \E i \in 1..MaxTasks, fault \in BOOLEAN : DealerResp(i, fault)
    \/ \E i \in 1..MaxTasks, fault \in BOOLEAN : ChartResp(i, fault)
    \/ \E i \in 1..MaxTasks, fault \in BOOLEAN : ListResp(i, fault)
    \/ \E i \in 1..MaxTasks, oks \in SUBSET (1..3) : SaveDone(i, oks)

SpecSubmit == InitSubmit /\ [][NextSubmit]_vars

(***************************************************************************)
(* Claims C25, C26: one submission at a time; the list after an order      *)
(***************************************************************************)
\* The slots of the handleSubmit calls waiting for createOrder.
Submitting == { i \in 1..Len(tasks) : tasks[i].origin = "submit" }

\* C25: from the start of handleSubmit until its createOrder settles the
\* Place Order button stays disabled (loading is true), also when a
\* fetchFreshData starts or finishes in between, so at most one submission is
\* in flight.
C25_OneSubmissionInFlight ==
    /\ Submitting # {} => ui["modal"].loading
    /\ Cardinality(Submitting) <= 1

\* An order was placed since the modal was opened.
OrderPlaced == Len(orders) > Len(OrdersInit)

\* The Orders screen is displaying the result of a load that went through.
OrdersSettled ==
    /\ ui["orders"].mounted
    /\ ui["orders"].error = OK
    /\ \A i \in 1..Len(tasks) : tasks[i].screen # "orders"

\* C26: after a successful submission, from the Orders screen's modal or from
\* the bottom navigation's, the list the Orders screen displays next contains
\* the new order.
C26_OrdersListHasNewOrder ==
    (OrderPlaced /\ OrdersSettled)
    => \A k \in 1..Len(orders) :
          orders[k].row.dealer_id = "d1"
          => \E j \in 1..Len(ui["orders"].data) : ui["orders"].data[j].id = orders[k].id

(***************************************************************************)
(* Session, profile and the redirects of RootLayoutNav                     *)
(***************************************************************************)
\* Mutant of RedirectTarget: a signed-in user is sent home from every route of
\* the (auth) group, the no-access page included.
RedirectTargetNoExemption(n) ==
    LET seg == Segments(n.route)
        inAuthGroup == seg[1] = "(auth)"
        isNoAccess == Len(seg) >= 2 /\ seg[2] = "no-access"
        session == n.session # ""
    IN  IF n.loading THEN <<>>
        ELSE IF ~session /\ ~inAuthGroup THEN <<"login">>
        ELSE IF session /\ inAuthGroup THEN <<"home">>
        ELSE IF session /\ n.role # "dealer" /\ ~isNoAccess THEN <<"no-access">>
        ELSE IF session /\ n.role = "dealer" /\ isNoAccess THEN <<"home">>
        ELSE <<>>

\* The effect of RootLayoutNav: the route it replaces the current one with, if any.
RedirectTarget(n) ==
    LET seg == Segments(n.route)
        inAuthGroup == seg[1] = "(auth)"
        isNoAccess == Len(seg) >= 2 /\ seg[2] = "no-access"
        session == n.session # ""
    IN  IF n.loading THEN <<>>
        ELSE IF ~session /\ ~inAuthGroup THEN <<"login">>
        ELSE IF session /\ inAuthGroup /\ ~isNoAccess THEN <<"home">>
        ELSE IF session /\ n.role # "dealer" /\ ~isNoAccess THEN <<"no-access">>
        ELSE IF session /\ n.role = "dealer" /\ isNoAccess THEN <<"home">>
        ELSE <<>>

NavUnchanged ==
    UNCHANGED <<orders, co, now, ledger, apiFin, apiLog, storage, items, user, focus, call,
                ui, tasks, timers>>

\* getSession() settles: with a stored session fetchProfile starts, without
\* one loading ends.
GetSessionResp(a) ==
    /\ nav.pc = "boot"
    /\ nav' = IF a = ""
                 THEN [nav EXCEPT !.pc = "idle", !.loading = FALSE]
                 ELSE [nav EXCEPT !.pc = "idle", !.session = a, !.pending = <<a>>]
    /\ last' = Step("getSession", 0, nav.route, "", "")
    /\ UNCHANGED events
    /\ NavUnchanged

\* fetchProfile settles: an active profile is set; a store error, a missing
\* row or an inactive profile signs out; loading ends in every case.
ProfileResp(fault) ==
    /\ nav.pending # <<>>
    /\ LET rows == { r \in ProfileRows : r.user_id = nav.pending[1] }
           ok == ~fault /\ rows # {} /\ (CHOOSE r \in rows : TRUE).status = "active"
       IN  nav' = IF ok
                     THEN [nav EXCEPT !.pending = <<>>, !.loading = FALSE,
                                      !.role = IF (CHOOSE r \in rows : TRUE).role = "dealer"
                                                  THEN "dealer" ELSE "other"]
                     ELSE [nav EXCEPT !.pending = <<>>, !.loading = FALSE,
                                      !.session = "", !.role = "none"]
    /\ last' = Step("profile", 0, nav.route, "", "")
    /\ Fault(fault)
    /\ NavUnchanged

\* onAuthStateChange with a session (sign-in on the login page): setSession,
\* then fetchProfile.
AuthSignIn(a) ==
    /\ nav.pc = "idle"
    /\ nav.session = ""
    /\ nav.pending = <<>>
    /\ nav.route = "login"
    /\ nav' = [nav EXCEPT !.session = a, !.pending = <<a>>]
    /\ Gesture("signIn", nav.route)
    /\ NavUnchanged

\* signOut, and onAuthStateChange without a session.
AuthSignOut ==
    /\ nav.pc = "idle"
    /\ nav.session # ""
    /\ nav' = [nav EXCEPT !.session = "", !.role = "none", !.loading = FALSE]
    /\ Gesture("signOut", nav.route)
    /\ NavUnchanged

\* The user follows a link or a deep link to route r.
Navigate(r) ==
    /\ r # nav.route
    /\ nav' = [nav EXCEPT !.route = r]
    /\ Gesture("navigate", r)
    /\ NavUnchanged

\* The effect of RootLayoutNav runs and replaces the route.
Redirect ==
    /\ RedirectTarget(nav) # <<>>
    /\ nav' = [nav EXCEPT !.route = RedirectTarget(nav)[1]]
    /\ last' = Step("redirect", 0, nav'.route, "", "")
    /\ UNCHANGED events
    /\ NavUnchanged

\* The app starts on any route; the provider is loading.
InitRoutes ==
    /\ orders = <<>>
    /\ co = CoIdle
    /\ now = 0
    /\ ledger = 0
    /\ apiFin = [call |-> FdfIdle, startedAt |-> 0]
    /\ apiLog = <<>>
    /\ storage = [k \in StorageKeys |-> NoItem]
    /\ items = ItemsInit
    /\ user = ""
    /\ focus = "none"
    /\ ui = UiInit
    /\ tasks = <<>>
    /\ call = CallIdle
    /\ nav \in { [NavIdle EXCEPT !.route = r, !.loading = TRUE, !.pc = "boot"] : r \in Routes }
    /\ events = 0
    /\ last = NoStep
    /\ timers = {}

NextRoutes ==
    \/ \E a \in Accounts \cup {""} : GetSessionResp(a)
    \/ \E fault \in BOOLEAN : ProfileResp(fault)
    \/ \E a \in Accounts : AuthSignIn(a)
    \/ AuthSignOut
    \/ \E r \in Routes : Navigate(r)
    \/ Redirect

\* Promises settle and effects run.
SpecRoutes ==
    /\ InitRoutes
    /\ [][NextRoutes]_vars
    /\ WF_vars(\E a \in Accounts \cup {""} : GetSessionResp(a))
    /\ WF_vars(ProfileResp(FALSE))
    /\ WF_vars(Redirect)

(***************************************************************************)
(* Claim C30: the route guard stabilises                                   *)
(***************************************************************************)
InAuthGroup(route) == Segments(route)[1] = "(auth)"

\* Auth loading has finished and the guard has no redirect to make.
Settled == ~nav.loading /\ RedirectTarget(nav) = <<>>

\* The route fits the session and the role.
RightPlace ==
    /\ nav.session = "" => InAuthGroup(nav.route)
    /\ (nav.session # "" /\ nav.role # "dealer") => nav.route = "no-access"
    /\ (nav.session # "" /\ nav.role = "dealer") => ~InAuthGroup(nav.route)

\* C30: once auth loading has finished, from every combination of session,
\* role (dealer, other, not loaded) and route the redirects of RootLayoutNav
\* come to a route with no further redirect after finitely many redirects:
\* a route of the auth group without a session, the no-access page for a
\* signed-in non-dealer, an app route for a signed-in dealer.
C30_RouteGuardStabilises ==
    /\ [](Settled => RightPlace)
    /\ <>[]Settled

\* A signed-in user who is not a dealer was redirected to the no-access page
\* and stays there.
C30_Witness ==
    /\ last.op = "redirect"
    /\ Settled
    /\ nav.session = "other" /\ nav.role = "other"
    /\ nav.route = "no-access"

====
